---- MODULE Spec2Model ----
(***************************************************************************)
(* Nexus Health: the health metrics and scoring engine                     *)
(* (lib/health-engine.ts) as a state machine.                              *)
(*                                                                         *)
(* Units.  The engine computes on JavaScript numbers; the model is exact   *)
(* integer arithmetic on scaled values:                                    *)
(*   profile.weightKg   in tenths of a kilogram  (753 is 75.3 kg)          *)
(*   profile.heightCm   in tenths of a centimetre (1750 is 175 cm)         *)
(*   day.sleepHours     in tenths of an hour      (65 is 6.5 h)            *)
(* every other quantity (kcal, ml, minutes, degrees C) is an integer in    *)
(* its own unit.  Math.round(n/d) is MathRound(n, d): the nearest          *)
(* integer, a tie going to the larger one.                                 *)
(***************************************************************************)
EXTENDS Integers, Sequences, FiniteSets, TLC

VARIABLES
    pc,              \* which call has run: the position of the caller
    profile,         \* UserProfile handed to the metrics calculator
    bmr,             \* result of calculateBMR
    tdee,            \* result of calculateTDEE
    metrics,         \* result of calculateHealthMetrics
    exerciseMinutes, \* argument of calculateWaterTarget
    tempC,           \* optional argument of calculateWaterTarget
    waterResult,     \* result of calculateWaterTarget
    day,             \* DaySnapshot handed to calculateDayScore
    targetCalories,  \* argument of the scorers
    waterTarget,     \* argument of the scorers (default WATER_TARGET_ML)
    acc,             \* the local s of calculateDayScore after each category
    dayScore,        \* result of calculateDayScore
    days,            \* DaySnapshot[] handed to calculateExecutionScore
    execScore,       \* result of calculateExecutionScore
    log,             \* dashboard: the DailyLog on display (activeLog)
    hour,            \* dashboard: new Date().getHours() at the render
    envTemp,         \* dashboard: the temperature reading (useState 25)
    data,            \* dashboard: the stored profile, with data.metrics
    mission,         \* dashboard: missionResult, the result of getMission
    insights,        \* dashboard: the Insight[] of the rule engine
    logs,            \* leaderboard: rows of daily_logs the window query returns
    profiles,        \* leaderboard: rows the profiles query returns
    leaderboard,     \* leaderboard: the result of cloudLoadLeaderboard
    lsDailyLog,      \* localStorage item nexus_daily_log, when there is one
    cloudDailyLog,   \* the user's daily_logs row of today, when there is one
    pending,         \* upserts of cloudSaveDailyLog awaiting their answer
    syncStatus,      \* data-sync.ts: currentStatus
    timers,          \* pending setTimeout(() => setSyncStatus('idle'), 3000)
    configured,      \* isSupabaseConfigured() and a user id exists
    lastCall,        \* the last call of a patch function: cur, patch, next
    calls,           \* number of calls made to the store
    today,           \* the calendar date, as a day number: todayISO()
    cloudEarlier,    \* the user's daily_logs rows of the dates before today
    written,         \* a save was called on the date today
    ghostDate,       \* dashboard: the past date on display, when there is one
    reading,         \* the query of cloudLoadDailyLog awaiting its answer
    loaded,          \* the last result of cloudLoadDailyLog
    lsProfile,       \* localStorage: the item nexus_profile
    cloudProfile,    \* the user's row of profiles
    profPending,     \* upserts of cloudSaveProfile awaiting their answer
    profReading,     \* the query of cloudLoadProfile awaiting its answer
    loadedProfile,   \* the last result of cloudLoadProfile
    listeners,       \* the subscribed listeners of the sync status
    heard,           \* per listener, the last status delivered to it
    applied,         \* the log that the writes made so far add up to
    prevMissionCrit, \* dashboard: prevMissionCritRef.current
    alerts,          \* number of calls made to playCriticalAlert
    evals            \* number of runs of the critical-alert effect

vars == <<pc, profile, bmr, tdee, metrics, exerciseMinutes, tempC, waterResult,
          day, targetCalories, waterTarget, acc, dayScore, days, execScore,
          log, hour, envTemp, data, mission, insights,
          logs, profiles, leaderboard,
          lsDailyLog, cloudDailyLog, pending, syncStatus, timers, configured,
          lastCall, calls,
          today, cloudEarlier, written, ghostDate, reading, loaded,
          lsProfile, cloudProfile, profPending, profReading, loadedProfile,
          listeners, heard, applied, prevMissionCrit, alerts, evals>>

metricsVars == <<profile, bmr, tdee, metrics>>
waterVars   == <<exerciseMinutes, tempC, waterResult>>
scoreVars   == <<day, targetCalories, waterTarget, acc, dayScore, days, execScore>>
dashVars    == <<log, hour, envTemp, data, mission, insights>>

\* the variables of the application around the engine
boardVars   == <<logs, profiles, leaderboard>>
storeVars   == <<lsDailyLog, cloudDailyLog, pending, syncStatus, timers,
                 configured, lastCall, calls, applied>>
dayVars     == <<today, cloudEarlier, written, ghostDate, reading, loaded>>
profVars    == <<lsProfile, cloudProfile, profPending, profReading, loadedProfile>>
alertVars   == <<prevMissionCrit, alerts, evals>>
appVars     == <<dashVars, boardVars, storeVars, dayVars, profVars, listeners, heard,
                 alertVars>>

-----------------------------------------------------------------------------
(* Arithmetic of the host language *)

\* Math.round(n / d) for d > 0: floor(n/d + 1/2)
MathRound(n, d) == (2 * n + d) \div (2 * d)

\* Math.abs
MathAbs(x) == IF x < 0 THEN -x ELSE x

\* Math.max / Math.min
MathMax(a, b) == IF a >= b THEN a ELSE b
MathMin(a, b) == IF a <= b THEN a ELSE b

\* tempC?: number -- an optional argument is a sequence of at most one value
Undefined == <<>>
Some(x)   == <<x>>

-----------------------------------------------------------------------------
(* health-engine.ts: constants *)

WATER_TARGET_ML == 2000

\* local-store.ts: the log of a day on which nothing was entered
DEFAULT_LOG ==
    [caloriesIn |-> 0, caloriesOut |-> 0, exerciseMinutes |-> 0,
     sleepHours |-> 0, waterMl |-> 0, flushDone |-> FALSE]

\* no mission computed yet
NoMission == [text |-> "none", critical |-> FALSE]

\* no patch function called yet
NoCall == [fn |-> "none"]

\* ACTIVITY_MULTIPLIERS, in thousandths
ACTIVITY_MULTIPLIERS ==
    [sedentary |-> 1200, light |-> 1375, moderate |-> 1550,
     active |-> 1725, very_active |-> 1900]

GOAL_CALORIE_DELTA == [loss |-> -500, gain |-> 500, maintain |-> 0]

Genders        == {"male", "female"}
Goals          == {"loss", "gain", "maintain"}
ActivityLevels == {"sedentary", "light", "moderate", "active", "very_active"}

-----------------------------------------------------------------------------
(* health-engine.ts: metrics calculator *)

\* const base = 10 * weightKg + 6.25 * heightCm - 5 * age, times 8:
\* 10 w = weightKg (tenths), 6.25 h = 5/8 * heightCm (tenths)
BaseTimes8(p) == 8 * p.weightKg + 5 * p.heightCm - 40 * p.age

\* rounding half away from zero instead of Math.round
RoundHalfAway(n, d) == IF n >= 0 THEN MathRound(n, d) ELSE -MathRound(-n, d)

\* a variant that rounds half away from zero
calculateBMRHalfAway(p) ==
    LET base8 == BaseTimes8(p)
    IN  RoundHalfAway(IF p.gender = "male" THEN base8 + 8 * 5 ELSE base8 - 8 * 161, 8)

calculateBMR(p) ==
    LET base8 == BaseTimes8(p)
    IN  MathRound(IF p.gender = "male" THEN base8 + 8 * 5 ELSE base8 - 8 * 161, 8)

calculateTDEE(p) ==
    LET b == calculateBMR(p)
    IN  MathRound(b * ACTIVITY_MULTIPLIERS[p.activityLevel], 1000)

\* a variant that subtracts the goal delta
calculateHealthMetricsMinus(p) ==
    LET b == calculateBMR(p)
        t == MathRound(b * ACTIVITY_MULTIPLIERS[p.activityLevel], 1000)
        c == t - GOAL_CALORIE_DELTA[p.goal]
    IN  [bmr |-> b, tdee |-> t, targetCalories |-> c]

calculateHealthMetrics(p) ==
    LET b == calculateBMR(p)
        t == MathRound(b * ACTIVITY_MULTIPLIERS[p.activityLevel], 1000)
        c == t + GOAL_CALORIE_DELTA[p.goal]
    IN  [bmr |-> b, tdee |-> t, targetCalories |-> c]

-----------------------------------------------------------------------------
(* health-engine.ts: dynamic water target *)

\* a variant whose heat test is >= 30, the test of getWeatherIcon
calculateWaterTargetGeq(minutes, temp) ==
    LET t0 == WATER_TARGET_ML
        t1 == t0 + MathRound(minutes * 250, 30)
        t2 == IF temp # Undefined /\ temp[1] >= 30 THEN t1 + 500 ELSE t1
    IN  t2

calculateWaterTarget(minutes, temp) ==
    LET t0 == WATER_TARGET_ML
        t1 == t0 + MathRound(minutes * 250, 30)
        t2 == IF temp # Undefined /\ temp[1] > 30 THEN t1 + 500 ELSE t1
    IN  t2

-----------------------------------------------------------------------------
(* health-engine.ts: day scorer.  Each category is one block of the        *)
(* function, adding to the running sum s.                                  *)

\* a variant without Math.abs
CalorieAccuracySigned(s, d, target) ==
    LET net  == d.caloriesIn - d.caloriesOut
        diff == target - net
    IN  IF diff <= 100 THEN s + 40
        ELSE IF diff <= 300 THEN s + 30
        ELSE IF diff <= 500 THEN s + 15
        ELSE s

\* Calorie accuracy (40 pts max)
CalorieAccuracy(s, d, target) ==
    LET net  == d.caloriesIn - d.caloriesOut
        diff == MathAbs(target - net)
    IN  IF diff <= 100 THEN s + 40
        ELSE IF diff <= 300 THEN s + 30
        ELSE IF diff <= 500 THEN s + 15
        ELSE s

\* a variant whose first comparison is strict
HydrationStrict(s, d, wTarget) ==
    IF d.waterMl > wTarget THEN s + 20
    ELSE IF d.waterMl >= MathRound(wTarget * 3, 4) THEN s + 12
    ELSE IF d.waterMl >= MathRound(wTarget, 2) THEN s + 5
    ELSE s - 5

\* a variant that adds the dehydration penalty instead of subtracting it
HydrationBonus(s, d, wTarget) ==
    IF d.waterMl >= wTarget THEN s + 20
    ELSE IF d.waterMl >= MathRound(wTarget * 3, 4) THEN s + 12
    ELSE IF d.waterMl >= MathRound(wTarget, 2) THEN s + 5
    ELSE s + 5

\* Hydration (20 pts max), thresholds Math.round(waterTarget * 0.75 / 0.5)
Hydration(s, d, wTarget) ==
    IF d.waterMl >= wTarget THEN s + 20
    ELSE IF d.waterMl >= MathRound(wTarget * 3, 4) THEN s + 12
    ELSE IF d.waterMl >= MathRound(wTarget, 2) THEN s + 5
    ELSE s - 5

\* a variant that assigns s instead of adding to it
ExerciseAssign(s, d) ==
    IF d.exerciseMinutes >= 30 THEN 20
    ELSE IF d.exerciseMinutes >= 15 THEN 10
    ELSE s

\* Exercise (20 pts max)
Exercise(s, d) ==
    IF d.exerciseMinutes >= 30 THEN s + 20
    ELSE IF d.exerciseMinutes >= 15 THEN s + 10
    ELSE s

\* a variant without the upper limit of the optimal band
SleepNoUpper(s, d) ==
    IF d.sleepHours >= 70 THEN s + 20
    ELSE IF d.sleepHours >= 60 THEN s + 10
    ELSE IF d.sleepHours > 0 THEN s + 3
    ELSE s

\* Sleep (20 pts max); sleepHours in tenths of an hour
Sleep(s, d) ==
    IF d.sleepHours >= 70 /\ d.sleepHours <= 90 THEN s + 20
    ELSE IF d.sleepHours >= 60 THEN s + 10
    ELSE IF d.sleepHours > 0 THEN s + 3
    ELSE s

\* a variant without the lower clamp
ClampScoreNoFloor(s) == MathMin(100, s)

\* return Math.max(0, Math.min(100, s))
ClampScore(s) == MathMax(0, MathMin(100, s))

\* the values of s after the four blocks
DayScoreSteps(d, target, wTarget) ==
    LET s1 == CalorieAccuracy(0, d, target)
        s2 == Hydration(s1, d, wTarget)
        s3 == Exercise(s2, d)
        s4 == Sleep(s3, d)
    IN  <<s1, s2, s3, s4>>

calculateDayScore(d, target, wTarget) ==
    ClampScore(DayScoreSteps(d, target, wTarget)[4])

-----------------------------------------------------------------------------
(* health-engine.ts: execution score *)

\* days.reduce((sum, d) => sum + calculateDayScore(d, ...), 0)
RECURSIVE ReduceScores(_, _, _, _)
ReduceScores(ds, sum, target, wTarget) ==
    IF ds = <<>> THEN sum
    ELSE ReduceScores(Tail(ds), sum + calculateDayScore(Head(ds), target, wTarget),
                      target, wTarget)

\* a variant that truncates the mean (Math.floor)
calculateExecutionScoreFloor(ds, target, wTarget) ==
    IF Len(ds) = 0 THEN 0
    ELSE ReduceScores(ds, 0, target, wTarget) \div Len(ds)

calculateExecutionScore(ds, target, wTarget) ==
    IF Len(ds) = 0 THEN 0
    ELSE MathRound(ReduceScores(ds, 0, target, wTarget), Len(ds))

-----------------------------------------------------------------------------
(* Inputs of the scoring engine *)

\* DEFAULT_LOG without flushDone: the snapshot that pads a missing day
ZeroSnapshot ==
    [caloriesIn |-> 0, caloriesOut |-> 0, exerciseMinutes |-> 0,
     sleepHours |-> 0, waterMl |-> 0]

\* Scenario A of the specification: 175 cm, 75 kg, 28, male, loss, moderate
ScenarioAProfile ==
    [heightCm |-> 1750, weightKg |-> 750, age |-> 28, gender |-> "male",
     goal |-> "loss", activityLevel |-> "moderate"]

\* a profile the onboarding form accepts whose target is positive and small:
\* 150 cm, 45 kg, 80, female, sedentary, loss
SmallProfile ==
    [heightCm |-> 1500, weightKg |-> 450, age |-> 80, gender |-> "female",
     goal |-> "loss", activityLevel |-> "sedentary"]

\* target calories the scorers are called with: profile.metrics.targetCalories
TargetSamples ==
    {calculateHealthMetrics(p).targetCalories : p \in {ScenarioAProfile, SmallProfile}}

\* water targets the scorers are called with: the default, or a computed one
WaterTargetSamples ==
    {WATER_TARGET_ML} \cup
    {calculateWaterTarget(m, t) : m \in {0, 2, 8}, t \in {Undefined, Some(31)}}

\* distances of the net intake from the target, around every threshold
DiffSamples == {-501, -500, -301, -300, -101, -100, 0, 100, 101, 300, 301, 500, 501}

CaloriesInSamples ==
    {0, 2000} \cup {c \in {2149 + x : x \in DiffSamples} : c >= 0}
CaloriesOutSamples == {0, 300}
ExerciseSamples    == {0, 14, 15, 29, 30}
SleepSamples       == {0, 1, 59, 60, 69, 70, 80, 90, 91}
WaterSamples ==
    {0, 999, 1000, 1033, 1034, 1499, 1500, 1512, 1513, 1549, 1550, 1551,
     1999, 2000, 2066, 2067, 2500}

DaySnapshots ==
    [caloriesIn : CaloriesInSamples, caloriesOut : CaloriesOutSamples,
     exerciseMinutes : ExerciseSamples, sleepHours : SleepSamples,
     waterMl : WaterSamples]

\* the days of a window: logged days of every score, and the padding
WindowSnapshots ==
    { ZeroSnapshot,
      [caloriesIn |-> 2000, caloriesOut |-> 300, exerciseMinutes |-> 30,
       sleepHours |-> 80, waterMl |-> 2000],
      [caloriesIn |-> 2149, caloriesOut |-> 0, exerciseMinutes |-> 30,
       sleepHours |-> 80, waterMl |-> 2500],
      [caloriesIn |-> 1850, caloriesOut |-> 280, exerciseMinutes |-> 35,
       sleepHours |-> 65, waterMl |-> 1400],
      [caloriesIn |-> 500, caloriesOut |-> 0, exerciseMinutes |-> 15,
       sleepHours |-> 50, waterMl |-> 1000] }

\* longest window scored
MaxDays == 3

RECURSIVE SeqsUpTo(_, _)
SeqsUpTo(S, n) ==
    IF n = 0 THEN {<<>>}
    ELSE LET shorter == SeqsUpTo(S, n - 1)
         IN  shorter \cup {Append(q, x) : q \in {r \in shorter : Len(r) = n - 1}, x \in S}

-----------------------------------------------------------------------------
(* The other components at rest *)

MetricsIdle ==
    /\ profile = ScenarioAProfile
    /\ bmr = 0
    /\ tdee = 0
    /\ metrics = [bmr |-> 0, tdee |-> 0, targetCalories |-> 0]

WaterIdle ==
    /\ exerciseMinutes = 0
    /\ tempC = Undefined
    /\ waterResult = 0

ScoreIdle ==
    /\ day = ZeroSnapshot
    /\ targetCalories = 0
    /\ waterTarget = WATER_TARGET_ML
    /\ acc = <<>>
    /\ dayScore = 0
    /\ days = <<>>
    /\ execScore = 0

\* the dashboard before its first render: the useState initial values
DashIdle ==
    /\ log = DEFAULT_LOG
    /\ hour = 0
    /\ envTemp = 25
    /\ data = [metrics |-> [bmr |-> 0, tdee |-> 0, targetCalories |-> 0]]
    /\ mission = NoMission
    /\ insights = <<>>

\* no leaderboard loaded
BoardIdle ==
    /\ logs = <<>>
    /\ profiles = <<>>
    /\ leaderboard = <<>>

\* the store untouched: no item, no row, nothing in flight
StoreIdle ==
    /\ lsDailyLog = Undefined
    /\ cloudDailyLog = Undefined
    /\ pending = {}
    /\ syncStatus = "idle"
    /\ timers = 0
    /\ configured = FALSE
    /\ lastCall = NoCall
    /\ calls = 0
    /\ applied = DEFAULT_LOG

\* the first day, today on display, no load made
DayIdle ==
    /\ today = 1
    /\ cloudEarlier = <<>>
    /\ written = FALSE
    /\ ghostDate = Undefined
    /\ reading = Undefined
    /\ loaded = Undefined

\* the callbacks that may subscribe to the sync status
Listeners == {"setSyncStatus", "fn"}

\* no profile stored, nobody subscribed
SyncIdle ==
    /\ lsProfile = Undefined
    /\ cloudProfile = Undefined
    /\ profPending = {}
    /\ profReading = Undefined
    /\ loadedProfile = Undefined
    /\ listeners = {}
    /\ heard = [l \in Listeners |-> "none"]

\* useRef(false), no alert played
AlertIdle ==
    /\ prevMissionCrit = FALSE
    /\ alerts = 0
    /\ evals = 0

AppIdle == DashIdle /\ BoardIdle /\ StoreIdle /\ DayIdle /\ SyncIdle /\ AlertIdle

-----------------------------------------------------------------------------
(* Scoring: a caller holds one day, or a window of days, and calls the     *)
(* scorer on it.                                                           *)

InitDay ==
    /\ pc = "day"
    /\ day \in DaySnapshots
    /\ targetCalories \in TargetSamples
    /\ waterTarget \in WaterTargetSamples
    /\ acc = <<>>
    /\ dayScore = 0
    /\ days = <<>>
    /\ execScore = 0

InitWindow ==
    /\ pc = "window"
    /\ day = ZeroSnapshot
    /\ targetCalories \in TargetSamples
    /\ waterTarget \in WaterTargetSamples
    /\ acc = <<>>
    /\ dayScore = 0
    /\ days \in SeqsUpTo(WindowSnapshots, MaxDays)
    /\ execScore = 0

Init ==
    /\ MetricsIdle
    /\ WaterIdle
    /\ AppIdle
    /\ InitDay \/ InitWindow

\* const score = calculateDayScore(day, targetCalories, waterTarget)
ScoreDay ==
    /\ pc = "day"
    /\ acc' = DayScoreSteps(day, targetCalories, waterTarget)
    /\ dayScore' = calculateDayScore(day, targetCalories, waterTarget)
    /\ pc' = "dayScored"
    /\ UNCHANGED <<day, targetCalories, waterTarget, days, execScore>>
    /\ UNCHANGED <<metricsVars, waterVars, appVars>>

\* const score = calculateExecutionScore(days, targetCalories, waterTarget)
ScoreWindow ==
    /\ pc = "window"
    /\ execScore' = calculateExecutionScore(days, targetCalories, waterTarget)
    /\ pc' = "windowScored"
    /\ UNCHANGED <<day, targetCalories, waterTarget, acc, dayScore, days>>
    /\ UNCHANGED <<metricsVars, waterVars, appVars>>

Next == ScoreDay \/ ScoreWindow

Spec == Init /\ [][Next]_vars

-----------------------------------------------------------------------------
(* Properties of the scorers *)

\* the day of Scenario B of the specification
ScenarioBDay ==
    [caloriesIn |-> 2000, caloriesOut |-> 300, exerciseMinutes |-> 30,
     sleepHours |-> 80, waterMl |-> 2000]

\* the distance of the day's net intake from the target
DiffOfDay ==
    LET net == day.caloriesIn - day.caloriesOut
    IN  IF net >= targetCalories THEN net - targetCalories ELSE targetCalories - net

\* what each category added to s
CaloriePart   == acc[1]
HydrationPart == acc[2] - acc[1]
ExercisePart  == acc[3] - acc[2]
SleepPart     == acc[4] - acc[3]

\* C1: calculateDayScore returns a value in 0..100 for every day, target and
\* water target, also when the category sum is negative, and
\* calculateExecutionScore returns a value in 0..100 for every list of days.
C1_ScoresBounded ==
    /\ pc = "dayScored" => dayScore \in 0..100
    /\ pc = "windowScored" => execScore \in 0..100

\* a day whose category sum is negative has been scored
C1_Witness ==
    /\ pc = "dayScored"
    /\ acc[4] < 0
    /\ dayScore = 0

\* C2: the calorie category adds 40 when diff <= 100, 30 when 100 < diff <= 300,
\* 15 when 300 < diff <= 500 and 0 otherwise, diff being the distance of the net
\* intake from the target, on either side of it.
C2_CaloriePoints ==
    pc = "dayScored" =>
        /\ DiffOfDay <= 100 => CaloriePart = 40
        /\ DiffOfDay > 100 /\ DiffOfDay <= 300 => CaloriePart = 30
        /\ DiffOfDay > 300 /\ DiffOfDay <= 500 => CaloriePart = 15
        /\ DiffOfDay > 500 => CaloriePart = 0

\* a day whose net intake is above the target by 101..300 got its 30 points
C2_Witness ==
    /\ pc = "dayScored"
    /\ day.caloriesIn - day.caloriesOut > targetCalories
    /\ DiffOfDay > 100 /\ DiffOfDay <= 300
    /\ CaloriePart = 30

\* C3 as stated: the hydration category adds 20 when waterMl >= waterTarget,
\* 12 when waterMl >= 0.75 * waterTarget, 5 when waterMl >= 0.5 * waterTarget
\* and -5 otherwise, the thresholds being the exact products.
C3_ExactThresholds ==
    pc = "dayScored" =>
        HydrationPart =
            IF day.waterMl >= waterTarget THEN 20
            ELSE IF 4 * day.waterMl >= 3 * waterTarget THEN 12
            ELSE IF 2 * day.waterMl >= waterTarget THEN 5
            ELSE -5

\* C3 amended: the thresholds are the products rounded to the nearest integer
\* (Math.round, a tie going up): 12 points need waterMl > 0.75 * waterTarget - 0.5
\* and 5 points need waterMl > 0.5 * waterTarget - 0.5.
C3_RoundedThresholds ==
    pc = "dayScored" =>
        HydrationPart =
            IF day.waterMl >= waterTarget THEN 20
            ELSE IF 4 * day.waterMl + 2 > 3 * waterTarget THEN 12
            ELSE IF 2 * day.waterMl + 1 > waterTarget THEN 5
            ELSE -5

\* a day just below the exact 0.75 product of a computed target got 12 points
C3_Witness ==
    /\ pc = "dayScored"
    /\ waterTarget \in {calculateWaterTarget(m, Undefined) : m \in 1..30}
    /\ 4 * day.waterMl < 3 * waterTarget
    /\ HydrationPart = 12

\* the points of the exercise category
ExercisePoints(m) == IF m >= 30 THEN 20 ELSE IF m >= 15 THEN 10 ELSE 0

\* C4: the day score is the clamp to [0,100] of the sum of four category scores,
\* each computed from its own fields alone (exercise: >= 30 gives 20, >= 15 gives
\* 10, else 0); changing the fields of one category leaves the points of the
\* other categories as they are; Scenario B's day scores 15+20+20+20 = 75.
C4_IndependentCategories ==
    pc = "dayScored" =>
        /\ dayScore = MathMax(0, MathMin(100,
               CalorieAccuracy(0, day, targetCalories) + Hydration(0, day, waterTarget)
               + Exercise(0, day) + Sleep(0, day)))
        /\ ExercisePart = ExercisePoints(day.exerciseMinutes)
        /\ \A ci \in CaloriesInSamples, co \in CaloriesOutSamples :
               LET d2 == [day EXCEPT !.caloriesIn = ci, !.caloriesOut = co]
                   st == DayScoreSteps(d2, targetCalories, waterTarget)
               IN  /\ st[2] - st[1] = HydrationPart
                   /\ st[3] - st[2] = ExercisePart
                   /\ st[4] - st[3] = SleepPart
                   /\ ci - co = day.caloriesIn - day.caloriesOut => st[1] = CaloriePart
        /\ \A w \in WaterSamples :
               LET d2 == [day EXCEPT !.waterMl = w]
                   st == DayScoreSteps(d2, targetCalories, waterTarget)
               IN  /\ st[1] = CaloriePart
                   /\ st[3] - st[2] = ExercisePart
                   /\ st[4] - st[3] = SleepPart
        /\ \A m \in ExerciseSamples :
               LET d2 == [day EXCEPT !.exerciseMinutes = m]
                   st == DayScoreSteps(d2, targetCalories, waterTarget)
               IN  /\ st[1] = CaloriePart
                   /\ st[2] - st[1] = HydrationPart
                   /\ st[4] - st[3] = SleepPart
        /\ \A h \in SleepSamples :
               LET d2 == [day EXCEPT !.sleepHours = h]
                   st == DayScoreSteps(d2, targetCalories, waterTarget)
               IN  /\ st[1] = CaloriePart
                   /\ st[2] - st[1] = HydrationPart
                   /\ st[3] - st[2] = ExercisePart
        /\ (day = ScenarioBDay /\ targetCalories = 2149 /\ waterTarget = 2000)
               => acc = <<15, 35, 55, 75>> /\ dayScore = 75

\* Scenario B's day has been scored
C4_Witness ==
    /\ pc = "dayScored"
    /\ day = ScenarioBDay /\ targetCalories = 2149 /\ waterTarget = 2000
    /\ dayScore = 75

\* C5: the sleep category adds 20 exactly when 7 <= sleepHours <= 9, 10 when
\* sleepHours >= 6 outside [7,9] (6 <= h < 7 and every h > 9), 3 when
\* 0 < sleepHours < 6 and 0 when sleepHours = 0.
C5_SleepPoints ==
    pc = "dayScored" =>
        /\ SleepPart = 20 <=> (day.sleepHours >= 70 /\ day.sleepHours <= 90)
        /\ (day.sleepHours >= 60 /\ day.sleepHours < 70) => SleepPart = 10
        /\ day.sleepHours > 90 => SleepPart = 10
        /\ (day.sleepHours > 0 /\ day.sleepHours < 60) => SleepPart = 3
        /\ day.sleepHours = 0 => SleepPart = 0

\* a day of more than nine hours of sleep got 10 points
C5_Witness ==
    /\ pc = "dayScored"
    /\ day.sleepHours > 90
    /\ SleepPart = 10

\* the sum of the day scores of the window
RECURSIVE TotalOfDays(_)
TotalOfDays(ix) ==
    IF ix = {} THEN 0
    ELSE LET i == CHOOSE j \in ix : TRUE
         IN  calculateDayScore(days[i], targetCalories, waterTarget) + TotalOfDays(ix \ {i})

\* C6: the execution score of an empty list is 0; of a non-empty list it is the
\* mean of the day scores (same target and water target for each) rounded to
\* the nearest integer, a mean midway between two integers to the larger.
C6_ExecutionScoreIsRoundedMean ==
    pc = "windowScored" =>
        LET n     == Len(days)
            total == TotalOfDays(1..n)
        IN  /\ n = 0 => execScore = 0
            /\ n > 0 => /\ 2 * n * execScore - n <= 2 * total
                        /\ 2 * total < 2 * n * execScore + n

\* a window whose mean is not an integer has been scored
C6_Witness ==
    /\ pc = "windowScored"
    /\ Len(days) >= 2
    /\ TotalOfDays(1..Len(days)) % Len(days) # 0
    /\ execScore > 0

RECURSIVE TotalOfLoggedDays(_)
TotalOfLoggedDays(ix) ==
    IF ix = {} THEN 0
    ELSE LET i == CHOOSE j \in ix : TRUE
         IN  (IF days[i] = ZeroSnapshot THEN 0
              ELSE calculateDayScore(days[i], targetCalories, waterTarget))
             + TotalOfLoggedDays(ix \ {i})

-----------------------------------------------------------------------------
(* Metrics calculator: a caller holds a profile and calls one of the three *)
(* exported functions on it.                                               *)

HeightSamples == {0, 1004, 1500, 1750, 1752, 1756}
WeightSamples == {0, 450, 750, 753}
AgeSamples    == {15, 28, 80, 100}

Profiles ==
    [heightCm : HeightSamples, weightKg : WeightSamples, age : AgeSamples,
     gender : Genders, goal : Goals, activityLevel : ActivityLevels]

InitMetrics ==
    /\ pc = "profile"
    /\ profile \in Profiles
    /\ bmr = 0
    /\ tdee = 0
    /\ metrics = [bmr |-> 0, tdee |-> 0, targetCalories |-> 0]
    /\ WaterIdle
    /\ ScoreIdle
    /\ AppIdle

CallBMR ==
    /\ pc = "profile"
    /\ bmr' = calculateBMR(profile)
    /\ pc' = "bmr"
    /\ UNCHANGED <<profile, tdee, metrics, waterVars, scoreVars, appVars>>

CallTDEE ==
    /\ pc = "profile"
    /\ tdee' = calculateTDEE(profile)
    /\ pc' = "tdee"
    /\ UNCHANGED <<profile, bmr, metrics, waterVars, scoreVars, appVars>>

\* onboarding: const metrics = calculateHealthMetrics(profile)
CallHealthMetrics ==
    /\ pc = "profile"
    /\ metrics' = calculateHealthMetrics(profile)
    /\ pc' = "metrics"
    /\ UNCHANGED <<profile, bmr, tdee, waterVars, scoreVars, appVars>>

NextMetrics == CallBMR \/ CallTDEE \/ CallHealthMetrics

SpecMetrics == InitMetrics /\ [][NextMetrics]_vars

-----------------------------------------------------------------------------
(* Dynamic water target: the dashboard calls calculateWaterTarget with the *)
(* day's exercise minutes and, when it has one, the temperature reading.   *)

\* most exercise minutes a call is made with
MaxExercise == 60

\* readings of getCurrentTemp: Math.round(20 + Math.random() * 15)
TempSamples == {20, 29, 30, 31, 35}

InitWater ==
    /\ pc = "water"
    /\ exerciseMinutes \in 0..MaxExercise
    /\ tempC \in {Undefined} \cup {Some(t) : t \in TempSamples}
    /\ waterResult = 0
    /\ MetricsIdle
    /\ ScoreIdle
    /\ AppIdle

CallWaterTarget ==
    /\ pc = "water"
    /\ waterResult' = calculateWaterTarget(exerciseMinutes, tempC)
    /\ pc' = "waterDone"
    /\ UNCHANGED <<exerciseMinutes, tempC, metricsVars, scoreVars, appVars>>

NextWater == CallWaterTarget

SpecWater == InitWater /\ [][NextWater]_vars

-----------------------------------------------------------------------------
(* Properties of the metrics calculator and the water target *)

\* base + 5 (male) or base - 161 (female), times 8
BmrArgumentTimes8(p) ==
    8 * p.weightKg + 5 * p.heightCm - 40 * p.age
    + (IF p.gender = "male" THEN 40 ELSE -1288)

\* r is n/d rounded to the nearest integer, a tie going to the larger one
IsRounded(r, n, d) == 2 * d * r - d <= 2 * n /\ 2 * n < 2 * d * r + d

IsBMR(p, b) == IsRounded(b, BmrArgumentTimes8(p), 8)

IsTDEE(p, t) ==
    \E b \in {BmrArgumentTimes8(p) \div 8 + k : k \in {0, 1}} :
        /\ IsBMR(p, b)
        /\ \/ p.activityLevel = "sedentary"   /\ IsRounded(t, b * 1200, 1000)
           \/ p.activityLevel = "light"       /\ IsRounded(t, b * 1375, 1000)
           \/ p.activityLevel = "moderate"    /\ IsRounded(t, b * 1550, 1000)
           \/ p.activityLevel = "active"      /\ IsRounded(t, b * 1725, 1000)
           \/ p.activityLevel = "very_active" /\ IsRounded(t, b * 1900, 1000)

\* C8: calculateHealthMetrics returns bmr = round(10 w + 6.25 h - 5 a + 5 or
\* - 161), tdee = round(bmr * multiplier) and targetCalories = tdee - 500 (loss),
\* tdee + 500 (gain) or tdee (maintain); calculateTDEE returns the same tdee and
\* calculateBMR the same bmr; Scenario A gives 1709 / 2649 / 2149.
C8_MetricsFormulas ==
    /\ pc = "metrics" =>
           /\ IsBMR(profile, metrics.bmr)
           /\ IsTDEE(profile, metrics.tdee)
           /\ profile.goal = "loss" => metrics.targetCalories = metrics.tdee - 500
           /\ profile.goal = "gain" => metrics.targetCalories = metrics.tdee + 500
           /\ profile.goal = "maintain" => metrics.targetCalories = metrics.tdee
           /\ profile = ScenarioAProfile =>
                  metrics = [bmr |-> 1709, tdee |-> 2649, targetCalories |-> 2149]
    /\ pc = "bmr" => IsBMR(profile, bmr)
    /\ pc = "tdee" => IsTDEE(profile, tdee)

\* the metrics of Scenario A have been computed
C8_Witness ==
    /\ pc = "metrics"
    /\ profile = ScenarioAProfile
    /\ metrics.targetCalories = 2149

\* C9: for the same weight, height and age, calculateBMR for male is
\* calculateBMR for female plus exactly 166, also when the value to round lies
\* midway between two integers.
C9_MaleIsFemalePlus166 ==
    (pc = "bmr" /\ profile.gender = "male") =>
        bmr = calculateBMR([profile EXCEPT !.gender = "female"]) + 166

\* a male BMR whose unrounded value lies midway between two integers, the female
\* one being negative
C9_Witness ==
    /\ pc = "bmr"
    /\ profile.gender = "male"
    /\ BmrArgumentTimes8(profile) % 8 = 4
    /\ bmr > 0
    /\ bmr < 166

\* C10: calculateWaterTarget returns 2000 + round(exerciseMinutes / 30 * 250),
\* plus 500 exactly when tempC is given and above 30; for exerciseMinutes >= 0
\* it is never below 2000 and never decreases when exerciseMinutes grows.
C10_WaterTarget ==
    pc = "waterDone" =>
        LET hot   == tempC # Undefined /\ tempC[1] > 30
            bonus == IF hot THEN 500 ELSE 0
        IN  /\ IsRounded(waterResult - 2000 - bonus, exerciseMinutes * 250, 30)
            /\ waterResult >= 2000
            /\ \A m \in exerciseMinutes..MaxExercise :
                   calculateWaterTarget(m, tempC) >= waterResult

\* a call with a reading of exactly 30 degrees and some exercise
C10_Witness ==
    /\ pc = "waterDone"
    /\ tempC = Some(30)
    /\ exerciseMinutes > 0
    /\ waterResult < 2500

-----------------------------------------------------------------------------
(* ExecutiveDashboard.tsx: the mission line and the insight rule engine.   *)
(* A mission is the key of its text in the translation table; an insight   *)
(* is its level, the key of its message and, for the two burn-out          *)
(* predictions that print one, the depletion time <<HH, MM>>.              *)

Mission(text, critical) == [text |-> text, critical |-> critical]

\* variant: the critical refuel window opens an hour late
getMissionLate(l, target, wt, h) ==
    LET net == l.caloriesIn - l.caloriesOut
        bal == target - net
        allGood == /\ l.exerciseMinutes >= 30
                   /\ l.sleepHours >= 70
                   /\ l.waterMl >= wt
                   /\ bal >= 0
                   /\ bal <= 500
    IN  IF l.caloriesIn = 0 THEN Mission("missionStandby", FALSE)
        ELSE IF h >= 21 THEN Mission("missionSleep", FALSE)
        ELSE IF h > 16 /\ bal > 800 THEN Mission("missionCriticalRefuel", TRUE)
        ELSE IF bal > 700 THEN Mission("missionFatBurn", FALSE)
        ELSE IF bal < -300 THEN Mission("missionRefuel", FALSE)
        ELSE IF l.exerciseMinutes = 0 THEN Mission("missionRecovery", FALSE)
        ELSE IF allGood THEN Mission("missionComplete", FALSE)
        ELSE Mission("missionOptimal", FALSE)

\* variant: the critical refuel branch is tried before the sleep branch
getMissionRefuelFirst(l, target, wt, h) ==
    LET net == l.caloriesIn - l.caloriesOut
        bal == target - net
        allGood == /\ l.exerciseMinutes >= 30
                   /\ l.sleepHours >= 70
                   /\ l.waterMl >= wt
                   /\ bal >= 0
                   /\ bal <= 500
    IN  IF l.caloriesIn = 0 THEN Mission("missionStandby", FALSE)
        ELSE IF h >= 16 /\ bal > 800 THEN Mission("missionCriticalRefuel", TRUE)
        ELSE IF h >= 21 THEN Mission("missionSleep", FALSE)
        ELSE IF bal > 700 THEN Mission("missionFatBurn", FALSE)
        ELSE IF bal < -300 THEN Mission("missionRefuel", FALSE)
        ELSE IF l.exerciseMinutes = 0 THEN Mission("missionRecovery", FALSE)
        ELSE IF allGood THEN Mission("missionComplete", FALSE)
        ELSE Mission("missionOptimal", FALSE)

\* getMission(log, targetCalories, t, waterTarget) at the clock hour h
getMission(l, target, wt, h) ==
    LET net == l.caloriesIn - l.caloriesOut
        bal == target - net
        allGood == /\ l.exerciseMinutes >= 30
                   /\ l.sleepHours >= 70
                   /\ l.waterMl >= wt
                   /\ bal >= 0
                   /\ bal <= 500
    IN  IF l.caloriesIn = 0 THEN Mission("missionStandby", FALSE)
        ELSE IF h >= 21 THEN Mission("missionSleep", FALSE)
        ELSE IF h >= 16 /\ bal > 800 THEN Mission("missionCriticalRefuel", TRUE)
        ELSE IF bal > 700 THEN Mission("missionFatBurn", FALSE)
        ELSE IF bal < -300 THEN Mission("missionRefuel", FALSE)
        ELSE IF l.exerciseMinutes = 0 THEN Mission("missionRecovery", FALSE)
        ELSE IF allGood THEN Mission("missionComplete", FALSE)
        ELSE Mission("missionOptimal", FALSE)

Insight(level, message) == [level |-> level, message |-> message, time |-> <<>>]
TimedInsight(level, message, time) ==
    [level |-> level, message |-> message, time |-> time]

\* calorie balance group
CalorieRule(l, target) ==
    LET bal == target - (l.caloriesIn - l.caloriesOut)
    IN  IF l.caloriesIn = 0 THEN <<Insight("info", "msgAwaitingInput")>>
        ELSE IF bal > 700 THEN <<Insight("warn", "msgDeficitHigh")>>
        ELSE IF bal < -300 THEN <<Insight("alert", "msgSurplusDetected")>>
        ELSE <<Insight("ok", "msgCalorieOk")>>

\* critical refuel alert
CriticalRefuelRule(l, target, h) ==
    LET bal == target - (l.caloriesIn - l.caloriesOut)
    IN  IF h >= 16 /\ bal > 800 /\ l.caloriesIn > 0
        THEN <<Insight("alert", "msgCriticalRefuel")>>
        ELSE <<>>

\* hour + fuelLeft = (hour * bmr + 24 * net) / bmr, for bmr > 0
DepletionNumerator(h, net, b) == h * b + 24 * net

\* depH = Math.floor((hour + fuelLeft) % 24)
depH(h, net, b) == (DepletionNumerator(h, net, b) \div b) % 24

\* depM = Math.round(((hour + fuelLeft) % 1) * 60)
depM(h, net, b) == MathRound(60 * (DepletionNumerator(h, net, b) % b), b)

\* variant: the predictor is silent when no calories are logged
BurnOutRuleSilent(l, b, h) ==
    LET net  == l.caloriesIn - l.caloriesOut
        time == <<depH(h, net, b), depM(h, net, b)>>
    IN  IF l.caloriesIn > 0 /\ net > 0
        THEN IF 48 * net < 3 * b
             THEN <<Insight("alert", "msgCrashImminent")>>
             ELSE IF 24 * net < 3 * b
             THEN <<TimedInsight("warn", "msgLowFuel", time)>>
             ELSE <<TimedInsight("info", "msgFuelPrediction", time)>>
        ELSE <<>>

\* burn-out predictor, for bmr > 0: fuelLeft = net / (bmr / 24), so
\* fuelLeft < 1.5 is 48 * net < 3 * bmr and fuelLeft < 3 is 24 * net < 3 * bmr
BurnOutRule(l, b, h) ==
    LET net  == l.caloriesIn - l.caloriesOut
        time == <<depH(h, net, b), depM(h, net, b)>>
    IN  IF l.caloriesIn > 0 /\ net > 0
        THEN IF 48 * net < 3 * b
             THEN <<Insight("alert", "msgCrashImminent")>>
             ELSE IF 24 * net < 3 * b
             THEN <<TimedInsight("warn", "msgLowFuel", time)>>
             ELSE <<TimedInsight("info", "msgFuelPrediction", time)>>
        ELSE IF l.caloriesIn = 0 THEN <<Insight("alert", "msgNoFuel")>>
        ELSE <<>>

\* late-night guard: net > targetCalories * 0.9
FuelingClosedRule(l, target, h) ==
    LET net == l.caloriesIn - l.caloriesOut
    IN  IF h >= 21 /\ 10 * net > 9 * target
        THEN <<Insight("alert", "msgFuelingClosed")>>
        ELSE <<>>

ExerciseRule(l) ==
    IF l.exerciseMinutes = 0 THEN <<Insight("warn", "msgExerciseDeficit")>>
    ELSE IF l.exerciseMinutes >= 60 THEN <<Insight("ok", "msgHighOutput")>>
    ELSE IF l.exerciseMinutes >= 30 THEN <<Insight("ok", "msgExerciseGoalMet")>>
    ELSE <<Insight("info", "msgExerciseInProgress")>>

SleepRule(l) ==
    IF l.sleepHours = 0 THEN <<Insight("info", "msgSleepMissing")>>
    ELSE IF l.sleepHours < 60 THEN <<Insight("alert", "msgSleepCritical")>>
    ELSE IF l.sleepHours < 70 THEN <<Insight("warn", "msgSleepSuboptimal")>>
    ELSE <<Insight("ok", "msgSleepOptimal")>>

\* the generic hydration rule
GenericHydration(l, wt) ==
    IF l.waterMl >= wt THEN <<Insight("ok", "msgHydrationOptimal")>>
    ELSE <<Insight("info", "msgHydration")>>

\* variant: the dehydration alert is followed by the generic rule
HydrationRuleLayered(l, h, wt) ==
    IF h >= 14 /\ l.waterMl < 1000
    THEN <<Insight("alert", "msgHighDehydration")>> \o GenericHydration(l, wt)
    ELSE GenericHydration(l, wt)

HydrationRule(l, h, wt) ==
    IF h >= 14 /\ l.waterMl < 1000
    THEN <<Insight("alert", "msgHighDehydration")>>
    ELSE IF l.waterMl >= wt THEN <<Insight("ok", "msgHydrationOptimal")>>
    ELSE <<Insight("info", "msgHydration")>>

FlushRule(l, h) ==
    IF h >= 18 /\ ~l.flushDone
    THEN <<Insight("warn", "msgMetabolicSluggishness")>>
    ELSE <<>>

\* runEngine(log, targetCalories, bmr, t, waterTarget) at the clock hour h
runEngine(l, target, b, wt, h) ==
    CalorieRule(l, target) \o CriticalRefuelRule(l, target, h)
        \o BurnOutRule(l, b, h) \o FuelingClosedRule(l, target, h)
        \o ExerciseRule(l) \o SleepRule(l) \o HydrationRule(l, h, wt)
        \o FlushRule(l, h)

\* runRuleEngine(log, targetCalories, bmr) of the earlier dashboard: the same
\* groups in the same order, without the critical refuel alert and against
\* the fixed water target
runRuleEngine(l, target, b, h) ==
    CalorieRule(l, target)
        \o BurnOutRule(l, b, h) \o FuelingClosedRule(l, target, h)
        \o ExerciseRule(l) \o SleepRule(l)
        \o HydrationRule(l, h, WATER_TARGET_ML) \o FlushRule(l, h)

-----------------------------------------------------------------------------
(* The dashboard renders a log at a clock hour: it computes the water      *)
(* target, runs the rule engine and reads the mission.                     *)

Hours == 0..23

DashCaloriesIn ==
    {0, 300, 712, 1348, 1349, 1448, 1449, 1649, 2149, 2449, 2450}
DashCaloriesOut == {0, 300}
DashExercise    == {0, 15, 30}
DashSleep       == {0, 65, 70}
DashWater       == {999, 1000, 2250}
DashTemps       == {25, 31}

DashLogs ==
    [caloriesIn : DashCaloriesIn, caloriesOut : DashCaloriesOut,
     exerciseMinutes : DashExercise, sleepHours : DashSleep,
     waterMl : DashWater, flushDone : BOOLEAN]

\* the stored profiles: the metrics of two onboarded users
DashData ==
    {[metrics |-> calculateHealthMetrics(p)] :
        p \in {ScenarioAProfile, SmallProfile}}

InitDash ==
    /\ pc = "dash"
    /\ log \in DashLogs
    /\ hour \in Hours
    /\ envTemp \in DashTemps
    /\ data \in DashData
    /\ mission = NoMission
    /\ insights = <<>>
    /\ MetricsIdle
    /\ WaterIdle
    /\ ScoreIdle
    /\ BoardIdle
    /\ StoreIdle
    /\ DayIdle
    /\ SyncIdle
    /\ AlertIdle

\* the render of the dashboard
Render ==
    /\ pc = "dash"
    /\ LET wt == calculateWaterTarget(log.exerciseMinutes, Some(envTemp))
       IN  /\ insights' = runEngine(log, data.metrics.targetCalories,
                                    data.metrics.bmr, wt, hour)
           /\ mission' = getMission(log, data.metrics.targetCalories, wt, hour)
    /\ pc' = "rendered"
    /\ UNCHANGED <<log, hour, envTemp, data>>
    /\ UNCHANGED <<alertVars, metricsVars, waterVars, scoreVars, boardVars, storeVars, dayVars,
                   profVars, listeners, heard>>

\* the render of the earlier dashboard: insights only
RenderLegacy ==
    /\ pc = "dash"
    /\ insights' = runRuleEngine(log, data.metrics.targetCalories,
                                 data.metrics.bmr, hour)
    /\ pc' = "renderedLegacy"
    /\ UNCHANGED <<log, hour, envTemp, data, mission>>
    /\ UNCHANGED <<alertVars, metricsVars, waterVars, scoreVars, boardVars, storeVars, dayVars,
                   profVars, listeners, heard>>

NextDash == Render \/ RenderLegacy

SpecDash == InitDash /\ [][NextDash]_vars

\* the render's water target
DashWaterTarget == calculateWaterTarget(log.exerciseMinutes, Some(envTemp))

DashNet == log.caloriesIn - log.caloriesOut
DashBal == data.metrics.targetCalories - DashNet

\* C11: the mission is the one of the first matching branch of the list
\* standby, sleep, critical refuel, fat burn, refuel, recovery, complete,
\* optimal; critical is true exactly for critical refuel.
C11_MissionDecisionList ==
    pc = "rendered" =>
        /\ mission.text =
              IF log.caloriesIn = 0 THEN "missionStandby"
              ELSE IF hour >= 21 THEN "missionSleep"
              ELSE IF hour >= 16 /\ DashBal > 800 THEN "missionCriticalRefuel"
              ELSE IF DashBal > 700 THEN "missionFatBurn"
              ELSE IF DashBal < -300 THEN "missionRefuel"
              ELSE IF log.exerciseMinutes = 0 THEN "missionRecovery"
              ELSE IF /\ log.exerciseMinutes >= 30
                      /\ log.sleepHours >= 70
                      /\ log.waterMl >= DashWaterTarget
                      /\ 0 <= DashBal
                      /\ DashBal <= 500
                   THEN "missionComplete"
              ELSE "missionOptimal"
        /\ mission.critical = (mission.text = "missionCriticalRefuel")

C11_Witness ==
    /\ pc = "rendered"
    /\ hour = 16
    /\ DashBal = 801
    /\ mission.critical

\* C12 as stated: at hour 22 the mission is sleep for any log whatsoever.
C12_SleepForAnyLog ==
    (pc = "rendered" /\ hour = 22) => mission.text = "missionSleep"

\* C12: at hour 22 the mission is sleep for every log with calories in,
\* whatever the balance, and standby for a log with none.
C12_SleepUnlessStandby ==
    (pc = "rendered" /\ hour = 22) =>
        mission = IF log.caloriesIn = 0
                  THEN Mission("missionStandby", FALSE)
                  ELSE Mission("missionSleep", FALSE)

\* at hour 22 a balance that would otherwise ask for a critical refuel
C12_Witness ==
    /\ pc = "rendered"
    /\ hour = 22
    /\ log.caloriesIn > 0
    /\ DashBal > 800
    /\ mission.text = "missionSleep"

\* positions of the insights with a given message key
Positions(message) == {i \in DOMAIN insights : insights[i].message = message}

Evaluated == pc \in {"rendered", "renderedLegacy"}

\* C13: with no calories logged, one evaluation of either rule engine
\* emits, at any hour, the info insight 'awaiting input' and the alert
\* 'no fuel detected', each once, the info insight before the alert.
C13_AwaitingInputAndNoFuel ==
    (Evaluated /\ log.caloriesIn = 0) =>
        \E i, j \in DOMAIN insights :
            /\ i < j
            /\ insights[i] = Insight("info", "msgAwaitingInput")
            /\ insights[j] = Insight("alert", "msgNoFuel")
            /\ Positions("msgAwaitingInput") = {i}
            /\ Positions("msgNoFuel") = {j}

C13_Witness ==
    /\ pc = "renderedLegacy"
    /\ log.caloriesIn = 0
    /\ hour = 3
    /\ Positions("msgAwaitingInput") = {1}
    /\ Positions("msgNoFuel") = {2}

Emitted(out, message) == \E i \in DOMAIN out : out[i].message = message

GenericHydrationKeys == {"msgHydrationOptimal", "msgHydration"}

C15_ValidClockTime ==
    Evaluated =>
        \A i \in DOMAIN insights :
            insights[i].time # <<>> =>
                /\ insights[i].time[1] \in 0..23
                /\ insights[i].time[2] \in 0..59

-----------------------------------------------------------------------------
(* data-sync.ts: cloudLoadLeaderboard.  The function reads two query       *)
(* results: the daily_logs rows of the last three dates, of all users, in  *)
(* the order the database returns them, and the profiles rows.  The two    *)
(* queries run one after the other, so a user of the first result may be   *)
(* missing from the second.                                                *)

\* buildDateRange(3), snaps.length < 3
WindowDays == 3

\* entries.slice(0, 10)
LeaderboardSize == 10

\* const snap: DaySnapshot = { caloriesIn: row.calories_in, ... }
SnapOfRow(row) ==
    [caloriesIn |-> row.calories_in, caloriesOut |-> row.calories_out,
     exerciseMinutes |-> row.exercise_minutes, sleepHours |-> row.sleep_hours,
     waterMl |-> row.water_ml]

\* new Map(profiles.map(p => [p.user_id, p])): a later row replaces an earlier
ProfileMap(rows) ==
    [u \in {rows[i].user_id : i \in DOMAIN rows} |->
        rows[CHOOSE i \in DOMAIN rows :
                /\ rows[i].user_id = u
                /\ \A j \in DOMAIN rows : rows[j].user_id = u => j <= i]]

\* arr = userLogs.get(user_id) ?? []; arr.push(snap); userLogs.set(user_id, arr)
\* the Map as the sequence of its entries, in insertion order
AddRow(userLogs, row) ==
    IF \E i \in DOMAIN userLogs : userLogs[i].userId = row.user_id
    THEN [i \in DOMAIN userLogs |->
            IF userLogs[i].userId = row.user_id
            THEN [userLogs[i] EXCEPT !.snaps = Append(@, SnapOfRow(row))]
            ELSE userLogs[i]]
    ELSE Append(userLogs, [userId |-> row.user_id, snaps |-> <<SnapOfRow(row)>>])

\* for (const row of logs) { ... }
RECURSIVE GroupRows(_, _)
GroupRows(rows, userLogs) ==
    IF rows = <<>> THEN userLogs
    ELSE GroupRows(Tail(rows), AddRow(userLogs, Head(rows)))

\* variant: the snapshots are scored as they are, without padding
PadSnapshotsNone(snaps) == snaps

\* while (snaps.length < 3) snaps.push({ ...zero })
RECURSIVE PadSnapshots(_)
PadSnapshots(snaps) ==
    IF Len(snaps) < WindowDays THEN PadSnapshots(Append(snaps, ZeroSnapshot))
    ELSE snaps

\* variant: the loop ends at the first user without a profile
RECURSIVE ScoreUsersBreak(_, _, _)
ScoreUsersBreak(userLogs, profileMap, entries) ==
    IF userLogs = <<>> THEN entries
    ELSE LET userId == Head(userLogs).userId
             snaps  == Head(userLogs).snaps
         IN  IF userId \notin DOMAIN profileMap
             THEN entries
             ELSE LET prof == profileMap[userId]
                  IN  ScoreUsersBreak(Tail(userLogs), profileMap,
                         Append(entries,
                            [userId |-> userId,
                             score  |-> calculateExecutionScore(
                                            PadSnapshots(snaps),
                                            prof.target_calories,
                                            WATER_TARGET_ML),
                             goal   |-> prof.goal]))

\* for (const [userId, snaps] of userLogs) { if (!prof) continue; ... push }
RECURSIVE ScoreUsers(_, _, _)
ScoreUsers(userLogs, profileMap, entries) ==
    IF userLogs = <<>> THEN entries
    ELSE LET userId == Head(userLogs).userId
             snaps  == Head(userLogs).snaps
         IN  IF userId \notin DOMAIN profileMap
             THEN ScoreUsers(Tail(userLogs), profileMap, entries)
             ELSE LET prof == profileMap[userId]
                  IN  ScoreUsers(Tail(userLogs), profileMap,
                         Append(entries,
                            [userId |-> userId,
                             score  |-> calculateExecutionScore(
                                            PadSnapshots(snaps),
                                            prof.target_calories,
                                            WATER_TARGET_ML),
                             goal   |-> prof.goal]))

\* variant: an entry is placed before the entries of equal score
InsertByScoreBeforeEqual(sorted, e) ==
    LET k == Cardinality({i \in DOMAIN sorted : sorted[i].score > e.score})
    IN  SubSeq(sorted, 1, k) \o <<e>> \o SubSeq(sorted, k + 1, Len(sorted))

\* entries.sort((a, b) => b.score - a.score): Array.prototype.sort is stable,
\* so the result is that of inserting each entry, in order, after the
\* entries whose score is not smaller
InsertByScore(sorted, e) ==
    LET k == Cardinality({i \in DOMAIN sorted : sorted[i].score >= e.score})
    IN  SubSeq(sorted, 1, k) \o <<e>> \o SubSeq(sorted, k + 1, Len(sorted))

RECURSIVE SortByScore(_, _)
SortByScore(entries, sorted) ==
    IF entries = <<>> THEN sorted
    ELSE SortByScore(Tail(entries), InsertByScore(sorted, Head(entries)))

\* entries.slice(0, 10)
Slice(entries, n) == SubSeq(entries, 1, MathMin(n, Len(entries)))

\* cloudLoadLeaderboard, both queries answered
cloudLoadLeaderboard(logRows, profileRows) ==
    LET entries == ScoreUsers(GroupRows(logRows, <<>>), ProfileMap(profileRows), <<>>)
    IN  Slice(SortByScore(entries, <<>>), LeaderboardSize)

-----------------------------------------------------------------------------
(* The leaderboard is loaded from the two query results.                   *)

\* most users with rows in the window
MaxUsers == 11

\* two logged days: with the Scenario A target they score 100 and 40
BoardDayA ==
    [caloriesIn |-> 2100, caloriesOut |-> 0, exerciseMinutes |-> 30,
     sleepHours |-> 80, waterMl |-> 2000]
BoardDayB ==
    [caloriesIn |-> 1800, caloriesOut |-> 0, exerciseMinutes |-> 15,
     sleepHours |-> 65, waterMl |-> 1000]

\* what a user logged on the dates of the window, newest first: the primary
\* key (user_id, log_date) allows one row a date, so at most three
BoardPatterns ==
    << <<BoardDayA>>, <<BoardDayA, BoardDayB>>,
       <<BoardDayB, BoardDayA, BoardDayA>>, <<ZeroSnapshot>>, <<BoardDayB>> >>

\* users 1 and 2 log any pattern or nothing; user u > 2 logs a pattern
\* fixed by u, so that scores repeat among the users
FreePatterns == {BoardPatterns[i] : i \in DOMAIN BoardPatterns} \cup {<<>>}
PatternOf(p1, p2, u) ==
    IF u = 1 THEN p1 ELSE IF u = 2 THEN p2
    ELSE BoardPatterns[(u % Len(BoardPatterns)) + 1]

\* target_calories of a profile row; no row at all for a user is Undefined
FreeTargets == {Undefined} \cup {Some(t) : t \in TargetSamples}
TargetOf(t1, t2, u) ==
    IF u = 1 THEN t1 ELSE IF u = 2 THEN t2 ELSE Some(calculateHealthMetrics(ScenarioAProfile).targetCalories)

\* the rows of n users, date by date, the users of a date in ascending or
\* descending order
BoardRows(n, p1, p2, descending) ==
    LET userAt(i) == IF descending THEN n + 1 - i ELSE i
        slots == [k \in 1..(WindowDays * n) |->
                    [date |-> (k - 1) \div n, user |-> userAt(((k - 1) % n) + 1)]]
        Logged(slot) == slot.date < Len(PatternOf(p1, p2, slot.user))
        kept  == SelectSeq(slots, Logged)
    IN  [k \in DOMAIN kept |->
            LET snap == PatternOf(p1, p2, kept[k].user)[kept[k].date + 1]
            IN  [user_id |-> kept[k].user, log_date |-> kept[k].date,
                 calories_in |-> snap.caloriesIn,
                 calories_out |-> snap.caloriesOut,
                 exercise_minutes |-> snap.exerciseMinutes,
                 sleep_hours |-> snap.sleepHours,
                 water_ml |-> snap.waterMl]]

ProfileRows(n, t1, t2) ==
    LET HasProfile(u) == TargetOf(t1, t2, u) # Undefined
        kept == SelectSeq([u \in 1..n |-> u], HasProfile)
    IN  [k \in DOMAIN kept |->
            [user_id |-> kept[k],
             target_calories |-> TargetOf(t1, t2, kept[k])[1],
             goal |-> IF kept[k] % 2 = 0 THEN "gain" ELSE "loss"]]

InitBoard ==
    /\ pc = "board"
    /\ \E n \in 0..MaxUsers, p1, p2 \in FreePatterns, t1, t2 \in FreeTargets,
          descending \in BOOLEAN :
            /\ logs = BoardRows(n, p1, p2, descending)
            /\ profiles = ProfileRows(n, t1, t2)
    /\ leaderboard = <<>>
    /\ MetricsIdle
    /\ WaterIdle
    /\ ScoreIdle
    /\ DashIdle
    /\ StoreIdle
    /\ DayIdle
    /\ SyncIdle
    /\ AlertIdle

\* cloudLoadLeaderboard().then(setLeaderboard), both queries answered
LoadLeaderboard ==
    /\ pc = "board"
    /\ leaderboard' = cloudLoadLeaderboard(logs, profiles)
    /\ pc' = "boardLoaded"
    /\ UNCHANGED <<logs, profiles>>
    /\ UNCHANGED <<alertVars, metricsVars, waterVars, scoreVars, dashVars, storeVars, dayVars,
                   profVars, listeners, heard>>

\* Supabase not configured, a query answered with an error, or an exception
LoadLeaderboardFailed ==
    /\ pc = "board"
    /\ leaderboard' = <<>>
    /\ pc' = "boardFailed"
    /\ UNCHANGED <<logs, profiles>>
    /\ UNCHANGED <<alertVars, metricsVars, waterVars, scoreVars, dashVars, storeVars, dayVars,
                   profVars, listeners, heard>>

NextBoard == LoadLeaderboard \/ LoadLeaderboardFailed

SpecBoard == InitBoard /\ [][NextBoard]_vars

\* the users of the query results
LoggedUsers  == {logs[i].user_id : i \in DOMAIN logs}
ProfiledUsers == {profiles[i].user_id : i \in DOMAIN profiles}
ListedUsers  == {leaderboard[i].userId : i \in DOMAIN leaderboard}

\* C16: a user with logs and no profile never appears, and does not keep
\* the users with logs and a profile from being scored: the list holds
\* distinct users with logs and a profile, all of them up to the size of
\* the list.
C16_UsersWithoutProfileSkipped ==
    pc = "boardLoaded" =>
        /\ ListedUsers \subseteq LoggedUsers \cap ProfiledUsers
        /\ Cardinality(ListedUsers) = Len(leaderboard)
        /\ Len(leaderboard) =
              MathMin(LeaderboardSize, Cardinality(LoggedUsers \cap ProfiledUsers))

\* two users with logs, one with no profile: exactly one entry
C16_Witness ==
    /\ pc = "boardLoaded"
    /\ LoggedUsers = {1, 2}
    /\ ProfiledUsers = {1}
    /\ Len(leaderboard) = 1
    /\ leaderboard[1].userId = 1

\* the rows of a user, and the target of the user's profile row
RowsOfUser(u) == {i \in DOMAIN logs : logs[i].user_id = u}
TargetOfUser(u) ==
    profiles[CHOOSE i \in DOMAIN profiles : profiles[i].user_id = u].target_calories

RECURSIVE SumOfRowScores(_, _)
SumOfRowScores(ix, target) ==
    IF ix = {} THEN 0
    ELSE LET i == CHOOSE j \in ix : TRUE
         IN  calculateDayScore(SnapOfRow(logs[i]), target, WATER_TARGET_ML)
                + SumOfRowScores(ix \ {i}, target)

\* C17: the score of an entry is the rounded mean of exactly three day
\* scores, against the user's target and the default water target: those
\* of the user's k <= 3 logged days and 3 - k times that of the zero day.
C17_ScoreOverThreeSnapshots ==
    pc = "boardLoaded" =>
        \A e \in DOMAIN leaderboard :
            LET u      == leaderboard[e].userId
                k      == Cardinality(RowsOfUser(u))
                target == TargetOfUser(u)
                zero   == calculateDayScore(ZeroSnapshot, target, WATER_TARGET_ML)
            IN  /\ k \in 1..WindowDays
                /\ IsRounded(leaderboard[e].score,
                             SumOfRowScores(RowsOfUser(u), target)
                                + (WindowDays - k) * zero,
                             WindowDays)

\* a user with two logged days, scoring 100 and 40, and one padded day
\* scoring 0: round(140 / 3) = 47
C17_Witness ==
    /\ pc = "boardLoaded"
    /\ \E e \in DOMAIN leaderboard :
          /\ leaderboard[e].userId = 1
          /\ Cardinality(RowsOfUser(1)) = 2
          /\ TargetOfUser(1) = 2149
          /\ leaderboard[e].score = 47

\* the place of a user in the input: the first of the user's rows
FirstRow(u) == CHOOSE i \in RowsOfUser(u) : \A j \in RowsOfUser(u) : i <= j

\* the score of a user with logs and a profile, as C17 gives it
ScoreOfUser(u) ==
    LET target == TargetOfUser(u)
        zero   == calculateDayScore(ZeroSnapshot, target, WATER_TARGET_ML)
    IN  MathRound(SumOfRowScores(RowsOfUser(u), target)
                    + (WindowDays - Cardinality(RowsOfUser(u))) * zero,
                  WindowDays)

\* C18: the list has at most 10 entries, in descending order of score,
\* entries of equal score in their input order, and no user left out of
\* the list would sort before a listed one.
C18_TopTenStableDescending ==
    pc = "boardLoaded" =>
        /\ Len(leaderboard) <= LeaderboardSize
        /\ \A i, j \in DOMAIN leaderboard :
              i < j =>
                 \/ leaderboard[i].score > leaderboard[j].score
                 \/ /\ leaderboard[i].score = leaderboard[j].score
                    /\ FirstRow(leaderboard[i].userId) < FirstRow(leaderboard[j].userId)
        /\ \A u \in (LoggedUsers \cap ProfiledUsers) \ ListedUsers :
              \A i \in DOMAIN leaderboard :
                 \/ leaderboard[i].score > ScoreOfUser(u)
                 \/ /\ leaderboard[i].score = ScoreOfUser(u)
                    /\ FirstRow(leaderboard[i].userId) < FirstRow(u)

\* eleven users scored, ten listed, the last listed tied with the one left out
C18_Witness ==
    /\ pc = "boardLoaded"
    /\ Cardinality(LoggedUsers \cap ProfiledUsers) = 11
    /\ Len(leaderboard) = LeaderboardSize
    /\ \E u \in (LoggedUsers \cap ProfiledUsers) \ ListedUsers :
          /\ ScoreOfUser(u) = leaderboard[LeaderboardSize].score
          /\ FirstRow(leaderboard[LeaderboardSize].userId) < FirstRow(u)
    /\ \E i, j \in DOMAIN leaderboard :
          i < j /\ leaderboard[i].score = leaderboard[j].score

-----------------------------------------------------------------------------
(* local-store.ts and data-sync.ts: the daily log.  saveDailyLog writes    *)
(* JSON.stringify(log) and loadDailyLog parses it: finite numbers and      *)
(* booleans come back as written, so the item is modelled by the log it    *)
(* holds, and its absence by Undefined.  A patch is a Partial<DailyLog>:   *)
(* a record with some of the fields.                                       *)

NumericFields ==
    {"caloriesIn", "caloriesOut", "exerciseMinutes", "sleepHours", "waterMl"}

\* a variant that ignores the item
loadDailyLogZero(item) == DEFAULT_LOG

\* loadDailyLog: { ...DEFAULT_LOG, ...JSON.parse(raw) }, DEFAULT_LOG without item
loadDailyLog(item) ==
    IF item = Undefined THEN DEFAULT_LOG
    ELSE [f \in DOMAIN DEFAULT_LOG |->
            IF f \in DOMAIN item[1] THEN item[1][f] ELSE DEFAULT_LOG[f]]

\* saveDailyLog: localStorage.setItem(LOG_KEY, JSON.stringify(log))
saveDailyLogLost(l) == Undefined

saveDailyLog(l) == Some(l)

\* patch.field ?? 0
OrZero(patch, f) == IF f \in DOMAIN patch THEN patch[f] ELSE 0

\* variant: the sum is stored without the floor at 0
PatchNextUnclamped(cur, patch) ==
    [f \in DOMAIN DEFAULT_LOG |->
        IF f \in NumericFields THEN cur[f] + OrZero(patch, f)
        ELSE IF "flushDone" \in DOMAIN patch THEN patch.flushDone
        ELSE cur.flushDone]

\* variant: flushDone is always taken from the current log
PatchNextKeepFlush(cur, patch) ==
    [f \in DOMAIN DEFAULT_LOG |->
        IF f \in NumericFields THEN MathMax(0, cur[f] + OrZero(patch, f))
        ELSE cur.flushDone]

\* local-store.ts patchDailyLog: const next = { ... }
patchDailyLogNext(cur, patch) ==
    [caloriesIn      |-> MathMax(0, cur.caloriesIn + OrZero(patch, "caloriesIn")),
     caloriesOut     |-> MathMax(0, cur.caloriesOut + OrZero(patch, "caloriesOut")),
     exerciseMinutes |-> MathMax(0, cur.exerciseMinutes + OrZero(patch, "exerciseMinutes")),
     sleepHours      |-> MathMax(0, cur.sleepHours + OrZero(patch, "sleepHours")),
     waterMl         |-> MathMax(0, cur.waterMl + OrZero(patch, "waterMl")),
     flushDone       |-> IF "flushDone" \in DOMAIN patch THEN patch.flushDone
                         ELSE cur.flushDone]

\* data-sync.ts cloudPatchDailyLog: const next = { ... }
cloudPatchDailyLogNext(cur, patch) ==
    [caloriesIn      |-> MathMax(0, cur.caloriesIn + OrZero(patch, "caloriesIn")),
     caloriesOut     |-> MathMax(0, cur.caloriesOut + OrZero(patch, "caloriesOut")),
     exerciseMinutes |-> MathMax(0, cur.exerciseMinutes + OrZero(patch, "exerciseMinutes")),
     sleepHours      |-> MathMax(0, cur.sleepHours + OrZero(patch, "sleepHours")),
     waterMl         |-> MathMax(0, cur.waterMl + OrZero(patch, "waterMl")),
     flushDone       |-> IF "flushDone" \in DOMAIN patch THEN patch.flushDone
                         ELSE cur.flushDone]

\* most calls made to the store in one run
MaxCalls == 3

\* the patches of the quick-log buttons, which lower caloriesIn only, and
\* a patch that lowers the other four fields
PatchSamples ==
    {[caloriesIn |-> 300], [caloriesIn |-> -300],
     [exerciseMinutes |-> 15, caloriesOut |-> 105],
     [waterMl |-> 250], [sleepHours |-> 10],
     [flushDone |-> TRUE], [flushDone |-> FALSE],
     [caloriesOut |-> -210, exerciseMinutes |-> -30, sleepHours |-> -60,
      waterMl |-> -500]}

\* the dashboard in use: the current one writes through to the cloud, the
\* earlier one to localStorage only
CloudMode == pc \in {"store", "days", "sync", "status"}

\* setSyncStatus(s): listeners.forEach(fn => fn(s))
Deliver(s) ==
    heard' = [l \in Listeners |-> IF l \in listeners THEN s ELSE heard[l]]

\* the number of saves explored: where the days roll over too, as many
\* as there are dates
MaxDate == 2
MaxSyncCalls == 2
CallBound ==
    IF pc = "days" THEN MaxDate
    ELSE IF pc \in {"sync", "status"} THEN MaxSyncCalls
    ELSE MaxCalls

\* StickyQuickLog: const dis = ghostMode; every control runs its handler
\* only when dis is false
QuickLogAlways == TRUE

QuickLogEnabled == ghostDate = Undefined

\* the row of daily_logs keyed by the user and the date d
CloudRow(d) ==
    IF d = today THEN cloudDailyLog
    ELSE IF d \in DOMAIN cloudEarlier THEN cloudEarlier[d]
    ELSE Undefined

InitStore ==
    /\ pc \in {"store", "storeLegacy"}
    /\ lsDailyLog \in {Undefined, saveDailyLog(DEFAULT_LOG)}
    /\ cloudDailyLog = Undefined
    /\ pending = {}
    /\ syncStatus = "idle"
    /\ timers = 0
    /\ configured \in BOOLEAN
    /\ (pc = "storeLegacy" => ~configured)
    /\ lastCall = NoCall
    /\ calls = 0
    /\ applied = DEFAULT_LOG
    /\ DayIdle
    /\ SyncIdle
    /\ AlertIdle
    /\ DashIdle
    /\ BoardIdle
    /\ MetricsIdle
    /\ WaterIdle
    /\ ScoreIdle

\* cloudSaveDailyLog(next) up to its await: the item is written, and with
\* the cloud configured the status is 'syncing' and the upsert is sent;
\* without it the call returns and the caller's then(setLog) runs
CloudSave(next) ==
    /\ lsDailyLog' = saveDailyLog(next)
    /\ calls' = calls + 1
    /\ written' = TRUE
    /\ IF configured
       THEN /\ syncStatus' = "syncing"
            /\ Deliver("syncing")
            /\ pending' = pending \cup {[id |-> calls + 1, row |-> next,
                                         log_date |-> today]}
            /\ UNCHANGED log
       ELSE /\ log' = next
            /\ UNCHANGED <<syncStatus, pending, heard>>
    /\ UNCHANGED listeners
    /\ UNCHANGED <<cloudDailyLog, timers, configured>>
    /\ UNCHANGED <<today, cloudEarlier, ghostDate, reading, loaded>>

\* a variant that patches the log held in the dashboard's state
ReadCurrentFromState == log

\* cloudPatchDailyLog: const current = lsLoadDailyLog()
ReadCurrent == loadDailyLog(lsDailyLog)

\* a delta applied to a log: each numeric field raised by its delta and
\* floored at 0, flushDone replaced when the delta has it
PatchedLog(cur, patch) ==
    [f \in DOMAIN DEFAULT_LOG |->
        IF f \in NumericFields
        THEN (IF cur[f] + OrZero(patch, f) >= 0
              THEN cur[f] + OrZero(patch, f) ELSE 0)
        ELSE (IF f \in DOMAIN patch THEN patch[f] ELSE cur[f])]

\* patch: cloudPatchDailyLog(delta).then(next => setLog(next))
Patch(delta) ==
    /\ CloudMode
    /\ QuickLogEnabled
    /\ calls < CallBound
    /\ LET cur  == ReadCurrent
           next == cloudPatchDailyLogNext(cur, delta)
       IN  /\ CloudSave(next)
           /\ lastCall' = [fn |-> "cloudPatchDailyLog", cur |-> cur,
                           patch |-> delta, next |-> next]
    /\ applied' = PatchedLog(applied, delta)
    /\ UNCHANGED <<pc, hour, envTemp, data, mission, insights>>
    /\ UNCHANGED <<alertVars, metricsVars, waterVars, scoreVars, boardVars, profVars>>

\* handleReset: cloudResetDailyLog().then(next => setLog(next))
Reset ==
    /\ CloudMode
    /\ QuickLogEnabled
    /\ calls < CallBound
    /\ CloudSave(DEFAULT_LOG)
    /\ lastCall' = NoCall
    /\ applied' = DEFAULT_LOG
    /\ UNCHANGED <<pc, hour, envTemp, data, mission, insights>>
    /\ UNCHANGED <<alertVars, metricsVars, waterVars, scoreVars, boardVars, profVars>>

\* the answer to an upsert: the row is stored, or the server refuses it
\* (the result's error is not read), or the request throws; then the
\* caller's then(setLog) runs
UpsertAnswered(req, answer) ==
    /\ CloudMode
    /\ req \in pending
    /\ pending' = pending \ {req}
    /\ cloudDailyLog' = IF answer = "stored" /\ req.log_date = today
                        THEN Some(req.row) ELSE cloudDailyLog
    /\ cloudEarlier' = IF answer = "stored" /\ req.log_date # today
                       THEN [cloudEarlier EXCEPT ![req.log_date] = Some(req.row)]
                       ELSE cloudEarlier
    /\ UNCHANGED <<today, written, ghostDate, reading, loaded>>
    /\ syncStatus' = IF answer = "thrown" THEN "offline" ELSE "synced"
    /\ Deliver(syncStatus')
    /\ UNCHANGED listeners
    /\ timers' = IF answer = "thrown" THEN timers ELSE timers + 1
    /\ log' = req.row
    /\ UNCHANGED <<lsDailyLog, configured, lastCall, calls, applied>>
    /\ UNCHANGED <<pc, hour, envTemp, data, mission, insights>>
    /\ UNCHANGED <<alertVars, metricsVars, waterVars, scoreVars, boardVars, profVars>>

\* setTimeout(() => setSyncStatus('idle'), 3000)
SyncedTimeout ==
    /\ CloudMode
    /\ timers > 0
    /\ timers' = timers - 1
    /\ syncStatus' = "idle"
    /\ Deliver("idle")
    /\ UNCHANGED listeners
    /\ UNCHANGED <<lsDailyLog, cloudDailyLog, pending, configured, lastCall, calls>>
    /\ UNCHANGED applied
    /\ UNCHANGED <<pc, dashVars, dayVars>>
    /\ UNCHANGED <<alertVars, metricsVars, waterVars, scoreVars, boardVars, profVars>>

\* earlier dashboard, patch: patchDailyLog(delta); setLog(loadDailyLog())
LegacyPatch(delta) ==
    /\ pc = "storeLegacy"
    /\ calls < MaxCalls
    /\ LET cur  == loadDailyLog(lsDailyLog)
           next == patchDailyLogNext(cur, delta)
       IN  /\ lsDailyLog' = saveDailyLog(next)
           /\ log' = loadDailyLog(saveDailyLog(next))
           /\ lastCall' = [fn |-> "patchDailyLog", cur |-> cur,
                           patch |-> delta, next |-> next]
    /\ applied' = PatchedLog(applied, delta)
    /\ calls' = calls + 1
    /\ written' = TRUE
    /\ UNCHANGED <<cloudDailyLog, pending, syncStatus, timers, configured>>
    /\ UNCHANGED <<listeners, heard>>
    /\ UNCHANGED <<today, cloudEarlier, ghostDate, reading, loaded>>
    /\ UNCHANGED <<pc, hour, envTemp, data, mission, insights>>
    /\ UNCHANGED <<alertVars, metricsVars, waterVars, scoreVars, boardVars, profVars>>

\* earlier dashboard, handleReset: setLog(resetDailyLog())
LegacyReset ==
    /\ pc = "storeLegacy"
    /\ calls < MaxCalls
    /\ lsDailyLog' = saveDailyLog(DEFAULT_LOG)
    /\ log' = DEFAULT_LOG
    /\ lastCall' = NoCall
    /\ applied' = DEFAULT_LOG
    /\ calls' = calls + 1
    /\ written' = TRUE
    /\ UNCHANGED <<cloudDailyLog, pending, syncStatus, timers, configured>>
    /\ UNCHANGED <<listeners, heard>>
    /\ UNCHANGED <<today, cloudEarlier, ghostDate, reading, loaded>>
    /\ UNCHANGED <<pc, hour, envTemp, data, mission, insights>>
    /\ UNCHANGED <<alertVars, metricsVars, waterVars, scoreVars, boardVars, profVars>>

NextStore ==
    \/ \E delta \in PatchSamples : Patch(delta)
    \/ Reset
    \/ \E req \in pending, answer \in {"stored", "refused", "thrown"} :
          UpsertAnswered(req, answer)
    \/ SyncedTimeout
    \/ \E delta \in PatchSamples : LegacyPatch(delta)
    \/ LegacyReset

SpecStore == InitStore /\ [][NextStore]_vars

\* the log a patch must produce, field by field
IsPatched(cur, patch, next) ==
    /\ \A f \in NumericFields :
          next[f] = (IF cur[f] + OrZero(patch, f) >= 0
                     THEN cur[f] + OrZero(patch, f) ELSE 0)
    /\ next.flushDone = (IF "flushDone" \in DOMAIN patch
                         THEN patch.flushDone ELSE cur.flushDone)
    /\ DOMAIN next = DOMAIN DEFAULT_LOG

\* C19: a patch yields next.field = max(0, current.field + delta.field) for
\* the five numeric fields, an absent delta counting as 0, and flushDone =
\* delta.flushDone if given, else the current one; cloudPatchDailyLog and
\* patchDailyLog compute the same next log from the same log and patch.
C19_PatchArithmetic ==
    lastCall.fn # "none" =>
        /\ IsPatched(lastCall.cur, lastCall.patch, lastCall.next)
        /\ cloudPatchDailyLogNext(lastCall.cur, lastCall.patch)
              = patchDailyLogNext(lastCall.cur, lastCall.patch)

\* a patch that the floor at 0 cuts, after one that set the flag
C19_Witness ==
    /\ lastCall.fn = "cloudPatchDailyLog"
    /\ lastCall.cur.waterMl = 250
    /\ lastCall.cur.flushDone
    /\ "waterMl" \in DOMAIN lastCall.patch
    /\ lastCall.patch.waterMl = -500
    /\ lastCall.next.waterMl = 0
    /\ lastCall.next.flushDone

\* C20: from the zero log, after any patches and resets, the five numeric
\* fields of the stored daily log are never negative: in localStorage, in
\* the cloud row, and in every upsert on its way.
C20_StoredFieldsNonNegative ==
    \A f \in NumericFields :
        /\ loadDailyLog(lsDailyLog)[f] >= 0
        /\ cloudDailyLog # Undefined => cloudDailyLog[1][f] >= 0
        /\ \A req \in pending : req.row[f] >= 0

\* a negative patch met a smaller value and the stored field is 0
C20_Witness ==
    /\ lastCall.fn # "none"
    /\ lastCall.cur.caloriesIn = 0
    /\ lastCall.patch = [caloriesIn |-> -300]
    /\ lsDailyLog = Some(lastCall.next)
    /\ lastCall.next.caloriesIn = 0
    /\ calls = MaxCalls

\* ------------------------------------------------------------------
\* The daily log across calendar days: data-sync.ts and the dashboard
\* ------------------------------------------------------------------

\* the quick-log patch of this part
DayPatches == {[caloriesIn |-> 300]}

\* what cloudLoadDailyLog returned: the log, the date it asked for,
\* whether it is the first thing done on that date (no save was called on
\* it, and it is still today), and what localStorage and the cloud held
\* when it returned
LoadResult(l, d, outcome) ==
    Some([log |-> l, log_date |-> d, outcome |-> outcome,
          untouched |-> (d = today /\ ~written),
          held |-> lsDailyLog, cloud |-> CloudRow(d)])

InitDays ==
    /\ pc = "days"
    /\ lsDailyLog \in {Undefined, saveDailyLog(DEFAULT_LOG)}
    /\ cloudDailyLog = Undefined
    /\ pending = {}
    /\ syncStatus = "idle"
    /\ timers = 0
    /\ configured \in BOOLEAN
    /\ lastCall = NoCall
    /\ calls = 0
    /\ applied = DEFAULT_LOG
    /\ DayIdle
    /\ SyncIdle
    /\ AlertIdle
    /\ DashIdle
    /\ BoardIdle
    /\ MetricsIdle
    /\ WaterIdle
    /\ ScoreIdle

\* midnight (UTC) passes: todayISO() is the next date; nothing in the
\* program runs, so localStorage and the dashboard keep what they hold
DayRollover ==
    /\ pc = "days"
    /\ today < MaxDate
    /\ today' = today + 1
    /\ cloudEarlier' = Append(cloudEarlier, cloudDailyLog)
    /\ cloudDailyLog' = Undefined
    /\ written' = FALSE
    /\ UNCHANGED <<ghostDate, reading, loaded, listeners, heard>>
    /\ UNCHANGED <<lsDailyLog, pending, syncStatus, timers, configured,
                   lastCall, calls, applied>>
    /\ UNCHANGED <<pc, dashVars>>
    /\ UNCHANGED <<alertVars, metricsVars, waterVars, scoreVars, boardVars, profVars>>

\* handleArchiveSelect(date): a past date, or null for today
ArchiveSelect(date) ==
    /\ pc = "days"
    /\ ghostDate # date
    /\ ghostDate' = date
    /\ UNCHANGED <<today, cloudEarlier, written, reading, loaded>>
    /\ UNCHANGED <<listeners, heard>>
    /\ UNCHANGED <<pc, dashVars, storeVars>>
    /\ UNCHANGED <<alertVars, metricsVars, waterVars, scoreVars, boardVars, profVars>>

\* the dashboard is opened: cloudLoadDailyLog() up to its await. Without
\* the cloud it returns the localStorage log at once and setLog runs;
\* with it the query for (uid, todayISO()) is sent
LoadDailyLog ==
    /\ pc \in {"days", "sync"}
    /\ reading = Undefined
    /\ IF configured
       THEN /\ reading' = Some([log_date |-> today])
            /\ UNCHANGED <<loaded, log>>
       ELSE /\ loaded' = LoadResult(loadDailyLog(lsDailyLog), today, "local")
            /\ log' = loadDailyLog(lsDailyLog)
            /\ UNCHANGED reading
    /\ ghostDate' = Undefined
    /\ UNCHANGED <<today, cloudEarlier, written, listeners, heard>>
    /\ UNCHANGED <<storeVars, pc, hour, envTemp, data, mission, insights>>
    /\ UNCHANGED <<alertVars, metricsVars, waterVars, scoreVars, boardVars, profVars>>

\* the query is answered: with the row (the cloud value is returned and
\* written over the localStorage item), with an error or no data (single()
\* finds no row, or the server refuses), or the request throws; in the
\* last two the localStorage log is returned. Then setLog(dailyLog) runs
LoadAnswered(answer) ==
    /\ pc \in {"days", "sync"}
    /\ reading # Undefined
    /\ LET d   == reading[1].log_date
           row == CloudRow(d)
       IN  /\ (answer = "row" => row # Undefined)
           /\ IF answer = "row"
              THEN /\ lsDailyLog' = saveDailyLog(row[1])
                   /\ loaded' = LoadResult(row[1], d, answer)
                   /\ log' = row[1]
                   /\ applied' = row[1]
              ELSE /\ loaded' = LoadResult(loadDailyLog(lsDailyLog), d, answer)
                   /\ log' = loadDailyLog(lsDailyLog)
                   /\ UNCHANGED <<lsDailyLog, applied>>
    /\ reading' = Undefined
    /\ UNCHANGED <<today, cloudEarlier, written, ghostDate, listeners, heard>>
    /\ UNCHANGED <<cloudDailyLog, pending, syncStatus, timers, configured,
                   lastCall, calls>>
    /\ UNCHANGED <<pc, hour, envTemp, data, mission, insights>>
    /\ UNCHANGED <<alertVars, metricsVars, waterVars, scoreVars, boardVars, profVars>>

NextDays ==
    \/ \E delta \in DayPatches : Patch(delta)
    \/ Reset
    \/ \E req \in pending, answer \in {"stored", "refused", "thrown"} :
          UpsertAnswered(req, answer)
    \/ DayRollover
    \/ \E date \in {Undefined} \cup {Some(d) : d \in 1..(today - 1)} :
          ArchiveSelect(date)
    \/ LoadDailyLog
    \/ \E answer \in {"row", "error", "thrown"} : LoadAnswered(answer)

SpecDays == InitDays /\ [][NextDays]_vars

\* C21: the first daily log loaded on a date, before anything is written
\* on that date, is the zero log, whatever was logged on earlier dates
\* and whatever the cloud answers.
C21_FreshDayStartsAtZero ==
    (loaded # Undefined /\ loaded[1].untouched) => loaded[1].log = DEFAULT_LOG

\* one step keeps the rows of the other dates: a save sends a row keyed
\* by the date of the call, the row of a date changes only by the answer
\* to a save called on that date, and in ghost mode no save is called
OnlyTodayWritten ==
    /\ \A req \in pending' \ pending : req.log_date = today /\ today' = today
    /\ \A d \in 1..MaxDate :
          CloudRow(d)' # CloudRow(d) =>
              \E req \in pending \ pending' :
                  req.log_date = d /\ CloudRow(d)' = Some(req.row)
    /\ \A req \in pending : req.log_date <= today
    /\ (ghostDate # Undefined =>
          calls' = calls /\ pending' \subseteq pending)

\* C22: every save, patch or reset writes the row keyed by the date of the
\* call and leaves the rows of the other dates as they are, and while a
\* past date is displayed no quick-log control issues a patch or a reset.
C22_OnlyTodayWritable == [][OnlyTodayWritten]_vars

\* both dates have their row, the second written after the first, and the
\* first is on display
C22_Witness ==
    /\ today = 2
    /\ cloudEarlier = <<Some([DEFAULT_LOG EXCEPT !.caloriesIn = 300])>>
    /\ cloudDailyLog = Some([DEFAULT_LOG EXCEPT !.caloriesIn = 600])
    /\ ghostDate = Some(1)
    /\ pending = {}

\* ------------------------------------------------------------------
\* The profile and the daily log between localStorage and the cloud
\* ------------------------------------------------------------------

\* what the onboarding form saves: a profile and its metrics
StoredSamples ==
    {[profile |-> p, metrics |-> calculateHealthMetrics(p)] :
        p \in {ScenarioAProfile, SmallProfile}}

\* the quick-log patch of this part
SyncPatches == {[caloriesIn |-> 300]}

\* local-store: saveProfile writes the item, loadProfile reads it, null
\* when there is none
saveProfile(d) == Some(d)
loadProfile(item) == item

\* cloudSaveProfile: the row built from { profile, metrics }
ProfileRow(d) ==
    [height_cm |-> d.profile.heightCm, weight_kg |-> d.profile.weightKg,
     age |-> d.profile.age, gender |-> d.profile.gender,
     goal |-> d.profile.goal, activity_level |-> d.profile.activityLevel,
     bmr |-> d.metrics.bmr, tdee |-> d.metrics.tdee,
     target_calories |-> d.metrics.targetCalories]

\* cloudLoadProfile: { profile, metrics } built from the row
StoredOfRow(r) ==
    [profile |-> [heightCm |-> r.height_cm, weightKg |-> r.weight_kg,
                  age |-> r.age, gender |-> r.gender, goal |-> r.goal,
                  activityLevel |-> r.activity_level],
     metrics |-> [bmr |-> r.bmr, tdee |-> r.tdee,
                  targetCalories |-> r.target_calories]]

\* what cloudLoadProfile returned (null is Undefined), with what
\* localStorage and the cloud held when it returned
ProfileResult(v, outcome) ==
    Some([value |-> v, outcome |-> outcome,
          held |-> lsProfile, cloud |-> cloudProfile])

InitSync ==
    /\ pc \in {"sync", "status"}
    /\ lsDailyLog = Undefined
    /\ cloudDailyLog = Undefined
    /\ pending = {}
    /\ syncStatus = "idle"
    /\ timers = 0
    /\ configured \in BOOLEAN
    /\ lastCall = NoCall
    /\ calls = 0
    /\ applied = DEFAULT_LOG
    /\ DayIdle
    /\ SyncIdle
    /\ AlertIdle
    /\ DashIdle
    /\ BoardIdle
    /\ MetricsIdle
    /\ WaterIdle
    /\ ScoreIdle

\* cloudSaveProfile(d) up to its await: the item is written, and with the
\* cloud configured the status is 'syncing' and the upsert is sent
SaveProfile(d) ==
    /\ pc \in {"sync", "status"}
    /\ calls < CallBound
    /\ calls' = calls + 1
    /\ lsProfile' = saveProfile(d)
    /\ IF configured
       THEN /\ syncStatus' = "syncing"
            /\ Deliver("syncing")
            /\ profPending' = profPending \cup
                                  {[id |-> calls + 1, row |-> ProfileRow(d),
                                    data |-> d]}
       ELSE UNCHANGED <<syncStatus, heard, profPending>>
    /\ UNCHANGED <<cloudProfile, profReading, loadedProfile, listeners>>
    /\ UNCHANGED <<lsDailyLog, cloudDailyLog, pending, timers, configured,
                   lastCall, applied>>
    /\ UNCHANGED <<pc, dashVars, dayVars>>
    /\ UNCHANGED <<alertVars, metricsVars, waterVars, scoreVars, boardVars>>

\* the answer to the profile upsert: stored or refused (the result's
\* error is not read) make the status 'synced' and start its timer; a
\* thrown request is caught and makes it 'offline'
ProfileUpsertAnswered(req, answer) ==
    /\ pc \in {"sync", "status"}
    /\ req \in profPending
    /\ profPending' = profPending \ {req}
    /\ cloudProfile' = IF answer = "stored" THEN Some(req.row) ELSE cloudProfile
    /\ syncStatus' = IF answer = "thrown" THEN "offline" ELSE "synced"
    /\ Deliver(syncStatus')
    /\ timers' = IF answer = "thrown" THEN timers ELSE timers + 1
    /\ UNCHANGED <<lsProfile, profReading, loadedProfile, listeners>>
    /\ UNCHANGED <<lsDailyLog, cloudDailyLog, pending, configured, lastCall,
                   calls, applied>>
    /\ UNCHANGED <<pc, dashVars, dayVars>>
    /\ UNCHANGED <<alertVars, metricsVars, waterVars, scoreVars, boardVars>>

\* cloudLoadProfile() up to its await
LoadProfile ==
    /\ pc = "sync"
    /\ profReading = Undefined
    /\ IF configured
       THEN /\ profReading' = Some("profiles")
            /\ UNCHANGED loadedProfile
       ELSE /\ loadedProfile' = ProfileResult(loadProfile(lsProfile), "local")
            /\ UNCHANGED profReading
    /\ UNCHANGED <<lsProfile, cloudProfile, profPending, listeners, heard>>
    /\ UNCHANGED <<pc, dashVars, storeVars, dayVars>>
    /\ UNCHANGED <<alertVars, metricsVars, waterVars, scoreVars, boardVars>>

\* the profile query is answered: with the row (the cloud value is
\* returned and written over the localStorage item), with an error or no
\* row, or the request throws; in these the localStorage value is returned
ProfileLoadAnswered(answer) ==
    /\ pc = "sync"
    /\ profReading # Undefined
    /\ (answer = "row" => cloudProfile # Undefined)
    /\ IF answer = "row"
       THEN /\ lsProfile' = saveProfile(StoredOfRow(cloudProfile[1]))
            /\ loadedProfile' =
                  ProfileResult(Some(StoredOfRow(cloudProfile[1])), answer)
       ELSE /\ loadedProfile' = ProfileResult(loadProfile(lsProfile), answer)
            /\ UNCHANGED lsProfile
    /\ profReading' = Undefined
    /\ UNCHANGED <<cloudProfile, profPending, listeners, heard>>
    /\ UNCHANGED <<pc, dashVars, storeVars, dayVars>>
    /\ UNCHANGED <<alertVars, metricsVars, waterVars, scoreVars, boardVars>>

NextSync ==
    \/ \E delta \in SyncPatches : Patch(delta)
    \/ Reset
    \/ \E req \in pending, answer \in {"stored", "refused", "thrown"} :
          UpsertAnswered(req, answer)
    \/ LoadDailyLog
    \/ \E answer \in {"row", "error", "thrown"} : LoadAnswered(answer)
    \/ \E d \in StoredSamples : SaveProfile(d)
    \/ \E req \in profPending, answer \in {"stored", "refused", "thrown"} :
          ProfileUpsertAnswered(req, answer)
    \/ LoadProfile
    \/ \E answer \in {"row", "error", "thrown"} :
          ProfileLoadAnswered(answer)

InitSyncData == InitSync /\ pc = "sync"

SpecSync == InitSyncData /\ [][NextSync]_vars

\* C23: cloudLoadProfile and cloudLoadDailyLog return the value held in
\* localStorage (null, or the zero log, when there is none) whenever the
\* cloud is not configured, the query gives an error or no row, or the
\* request throws; they return the cloud value exactly on a cloud read
\* that found the row.
C23_LoadFallsBackToLocal ==
    /\ loaded # Undefined =>
          IF loaded[1].outcome = "row"
          THEN /\ configured
               /\ loaded[1].cloud # Undefined
               /\ loaded[1].log = loaded[1].cloud[1]
          ELSE loaded[1].log = (IF loaded[1].held = Undefined
                                THEN DEFAULT_LOG ELSE loaded[1].held[1])
    /\ loadedProfile # Undefined =>
          IF loadedProfile[1].outcome = "row"
          THEN /\ configured
               /\ loadedProfile[1].cloud # Undefined
               /\ loadedProfile[1].value =
                     Some(StoredOfRow(loadedProfile[1].cloud[1]))
          ELSE loadedProfile[1].value = loadedProfile[1].held

\* a thrown daily-log query answered from a localStorage log that the
\* cloud does not have, and a profile read from the cloud
C23_Witness ==
    /\ loaded # Undefined
    /\ loaded[1].outcome = "thrown"
    /\ loaded[1].cloud = Undefined
    /\ loaded[1].log.caloriesIn = 300
    /\ loadedProfile # Undefined
    /\ loadedProfile[1].outcome = "row"
    /\ loadedProfile[1].value = lsProfile

\* one step, for the saves whose upsert is answered in it: localStorage
\* holds what they saved
ReturnHoldsSaved ==
    /\ \A req \in pending \ pending' : lsDailyLog' = Some(req.row)
    /\ \A req \in profPending \ profPending' : lsProfile' = Some(req.data)

\* one step, for the saves called in it: localStorage holds what they
\* save, with or without the cloud; and for the upserts answered in it:
\* localStorage is left as it is, and the status is 'synced' or, for a
\* thrown one, 'offline'
SavedLocallyFirst ==
    /\ \A req \in pending' \ pending : lsDailyLog' = Some(req.row)
    /\ \A req \in profPending' \ profPending : lsProfile' = Some(req.data)
    /\ (calls' # calls /\ ~configured) =>
          /\ pending' = {} /\ profPending' = {}
          /\ syncStatus' = syncStatus
          /\ \/ lsDailyLog' = Some(log') /\ lsProfile' = lsProfile
             \/ lsProfile' \in {Some(d) : d \in StoredSamples}
                   /\ lsDailyLog' = lsDailyLog
    /\ (pending' # pending /\ pending' \subseteq pending) =>
          /\ lsDailyLog' = lsDailyLog
          /\ syncStatus' \in {"synced", "offline"}
          /\ (syncStatus' = "synced" => timers' = timers + 1)
    /\ (profPending' # profPending /\ profPending' \subseteq profPending) =>
          /\ lsProfile' = lsProfile
          /\ syncStatus' \in {"synced", "offline"}

\* C24 as stated: when cloudSaveDailyLog / cloudSaveProfile return,
\* localStorage holds exactly the value they saved.
C24_ReturnHoldsSavedValue == [][ReturnHoldsSaved]_vars

\* C24: every daily-log and profile save writes the saved value to
\* localStorage at the call, with or without the cloud, and the answer to
\* its upsert (stored, refused or thrown) leaves localStorage as it is
\* and makes the status 'synced' or, when it has thrown, 'offline'.
C24_SavedToLocalStorageFirst == [][SavedLocallyFirst]_vars

\* a daily-log upsert has thrown and a profile upsert was stored: both
\* items hold what was saved
C24_Witness ==
    /\ pc = "sync"
    /\ pending = {} /\ profPending = {}
    /\ calls = 2
    /\ lsDailyLog = Some([DEFAULT_LOG EXCEPT !.caloriesIn = 300])
    /\ cloudDailyLog = Undefined
    /\ syncStatus = "offline"
    /\ lsProfile # Undefined
    /\ cloudProfile = Some(ProfileRow(lsProfile[1]))

\* ------------------------------------------------------------------
\* data-sync.ts: cloudLoadRecentLogs, and the dashboard's execution score
\* ------------------------------------------------------------------

MaxRecent == 3

\* the date on which the recent logs are asked for
RecentToday == 3

\* buildDateRange(dayCount): today, the day before, ...
buildDateRange(dayCount) == [i \in 1..dayCount |-> today - (i - 1)]

\* the answer to .in('log_date', dates).order('log_date', descending):
\* the rows there are, newest first
RECURSIVE RowsOfDates(_)
RowsOfDates(dates) ==
    IF dates = <<>> THEN <<>>
    ELSE (IF CloudRow(Head(dates)) = Undefined THEN <<>>
          ELSE <<[log_date |-> Head(dates), row |-> CloudRow(Head(dates))[1]]>>)
         \o RowsOfDates(Tail(dates))

\* rowMap.get(d): the log of the row whose log_date is d, if there is one
RowMapGet(rows, d) ==
    IF \E k \in 1..Len(rows) : rows[k].log_date = d
    THEN Some((CHOOSE r \in {rows[k] : k \in 1..Len(rows)} : r.log_date = d).row)
    ELSE Undefined

\* a variant that leaves the missing days out
PadRecentOmit(rows, dates) ==
    [k \in 1..Len(rows) |-> rows[k].row]

\* dates.map(d => rowMap.get(d) ?? { ...DEFAULT_LOG })
PadRecent(rows, dates) ==
    [i \in 1..Len(dates) |->
        IF RowMapGet(rows, dates[i]) = Undefined THEN DEFAULT_LOG
        ELSE RowMapGet(rows, dates[i])[1]]

\* cloudLoadRecentLogs(dayCount), by the answer the query gets
cloudLoadRecentLogs(dayCount, answer) ==
    LET dates == buildDateRange(dayCount)
    IN  IF ~configured THEN <<>>
        ELSE IF answer = "thrown" THEN <<>>
        ELSE IF answer = "error" THEN [i \in 1..Len(dates) |-> DEFAULT_LOG]
        ELSE PadRecent(RowsOfDates(dates), dates)

\* the rows a date may have
RecentRows ==
    {Undefined,
     Some([caloriesIn |-> 2000, caloriesOut |-> 300, exerciseMinutes |-> 30,
           sleepHours |-> 80, waterMl |-> 2500, flushDone |-> TRUE]),
     Some([DEFAULT_LOG EXCEPT !.caloriesIn = 300])}

InitRecent ==
    /\ pc = "recent"
    /\ today = RecentToday
    /\ cloudEarlier \in [1..(RecentToday - 1) -> RecentRows]
    /\ cloudDailyLog \in RecentRows
    /\ configured \in BOOLEAN
    /\ data = [metrics |-> calculateHealthMetrics(ScenarioAProfile)]
    /\ log = DEFAULT_LOG
    /\ hour = 0
    /\ envTemp = 25
    /\ mission = NoMission
    /\ insights = <<>>
    /\ lsDailyLog = Undefined
    /\ pending = {}
    /\ syncStatus = "idle"
    /\ timers = 0
    /\ lastCall = NoCall
    /\ calls = 0
    /\ applied = DEFAULT_LOG
    /\ written = FALSE
    /\ ghostDate = Undefined
    /\ reading = Undefined
    /\ loaded = Undefined
    /\ SyncIdle
    /\ AlertIdle
    /\ BoardIdle
    /\ MetricsIdle
    /\ WaterIdle
    /\ ScoreIdle

\* init(): const recent = await cloudLoadRecentLogs(3); if (recent.length
\* > 0) setExecScore(calculateExecutionScore(recent, targetCalories))
LoadRecentLogs(dayCount, answer) ==
    /\ pc = "recent"
    /\ LET recent == cloudLoadRecentLogs(dayCount, answer)
       IN  /\ days' = recent
           /\ execScore' =
                 IF Len(recent) > 0
                 THEN calculateExecutionScore(recent, data.metrics.targetCalories,
                                              WATER_TARGET_ML)
                 ELSE execScore
    /\ lastCall' = [fn |-> "cloudLoadRecentLogs", dayCount |-> dayCount,
                    answer |-> IF configured THEN answer ELSE "local"]
    /\ UNCHANGED <<day, targetCalories, waterTarget, acc, dayScore>>
    /\ UNCHANGED <<lsDailyLog, cloudDailyLog, pending, syncStatus, timers,
                   configured, calls, applied>>
    /\ UNCHANGED <<pc, dashVars, dayVars, profVars, listeners, heard>>
    /\ UNCHANGED <<alertVars, metricsVars, waterVars, boardVars>>

NextRecent ==
    \E dayCount \in 1..MaxRecent, answer \in {"rows", "error", "thrown"} :
        LoadRecentLogs(dayCount, answer)

SpecRecent == InitRecent /\ [][NextRecent]_vars

\* the stored log of the date i - 1 days before today, the zero log when
\* that date has no row
StoredOrZero(i) ==
    IF CloudRow(today - (i - 1)) = Undefined THEN DEFAULT_LOG
    ELSE CloudRow(today - (i - 1))[1]

\* the logs of the last n dates, newest first, missing dates as zero logs
StoredWindow(n) == [i \in 1..n |-> StoredOrZero(i)]

\* C25 as stated: whenever the query is answered, with or without an
\* error, the result holds the stored (or zero) log of each of the n dates.
C25_AnswerGivesStoredLogs ==
    (lastCall.fn = "cloudLoadRecentLogs" /\ lastCall.answer \in {"rows", "error"})
        => days = StoredWindow(lastCall.dayCount)

\* C25: whenever the query of cloudLoadRecentLogs(n) is answered the
\* result has exactly n logs, newest first: without a query error position
\* i holds the stored log of the date i - 1 days before today, or the zero
\* log when that date has no row; with a query error every position holds
\* the zero log. The execution score is the rounded mean of the n day
\* scores of that result.
C25_RecentLogsPadded ==
    (lastCall.fn = "cloudLoadRecentLogs" /\ lastCall.answer \in {"rows", "error"})
        => LET n == lastCall.dayCount
               expected == IF lastCall.answer = "rows" THEN StoredWindow(n)
                           ELSE [i \in 1..n |-> DEFAULT_LOG]
           IN  /\ Len(days) = n
               /\ days = expected
               /\ execScore =
                     MathRound(ReduceScores(expected, 0,
                                            data.metrics.targetCalories,
                                            WATER_TARGET_ML), n)

\* three days asked for, the middle one without a row
C25_Witness ==
    /\ lastCall.fn = "cloudLoadRecentLogs"
    /\ lastCall.answer = "rows"
    /\ lastCall.dayCount = 3
    /\ CloudRow(today - 1) = Undefined
    /\ CloudRow(today) # Undefined
    /\ CloudRow(today - 2) # Undefined
    /\ Len(days) = 3
    /\ days[2] = DEFAULT_LOG
    /\ days[3] = CloudRow(today - 2)[1]
    /\ execScore > 0

\* ------------------------------------------------------------------
\* data-sync.ts: the sync status, its timer and its listeners
\* ------------------------------------------------------------------

\* onSyncChange(fn): listeners.add(fn)
Subscribe(l) ==
    /\ pc = "status"
    /\ l \notin listeners
    /\ listeners' = listeners \cup {l}
    /\ heard' = [heard EXCEPT ![l] = "none"]
    /\ UNCHANGED <<pc, dashVars, storeVars, dayVars, profVars>>
    /\ UNCHANGED <<alertVars, metricsVars, waterVars, scoreVars, boardVars>>

\* the function onSyncChange returned: listeners.delete(fn)
Unsubscribe(l) ==
    /\ pc = "status"
    /\ l \in listeners
    /\ listeners' = listeners \ {l}
    /\ UNCHANGED heard
    /\ UNCHANGED <<pc, dashVars, storeVars, dayVars, profVars>>
    /\ UNCHANGED <<alertVars, metricsVars, waterVars, scoreVars, boardVars>>

NextStatus ==
    \/ \E delta \in SyncPatches : Patch(delta)
    \/ \E req \in pending, answer \in {"stored", "refused", "thrown"} :
          UpsertAnswered(req, answer)
    \/ \E d \in StoredSamples : SaveProfile(d)
    \/ \E req \in profPending, answer \in {"stored", "refused", "thrown"} :
          ProfileUpsertAnswered(req, answer)
    \/ SyncedTimeout
    \/ \E l \in Listeners : Subscribe(l)
    \/ \E l \in Listeners : Unsubscribe(l)

InitStatus == InitSync /\ pc = "status"

SpecStatus == InitStatus /\ [][NextStatus]_vars

\* one step: a timer that fires changes the status only from 'synced',
\* and to 'idle'; a change of the status is delivered to every subscribed
\* listener, and nothing is delivered to one that is not subscribed
TimerResetsSyncedOnly ==
    /\ (timers' < timers /\ syncStatus \in {"syncing", "offline"})
          => syncStatus' = syncStatus
    /\ (timers' < timers /\ syncStatus' # syncStatus)
          => (syncStatus = "synced" /\ syncStatus' = "idle")
    /\ syncStatus' # syncStatus
          => \A l \in listeners : heard'[l] = syncStatus'
    /\ \A l \in Listeners \ (listeners \cup listeners') : heard'[l] = heard[l]

\* C26: the only automatic change of the sync status is synced -> idle,
\* made by the timer started when the status became 'synced'; the timer
\* never changes the status when it has meanwhile become 'syncing' or
\* 'offline'; every change of the status is delivered to all subscribed
\* listeners and to no unsubscribed one.
C26_TimerResetsSyncedOnly == [][TimerResetsSyncedOnly]_vars

\* C27: patches are atomic on localStorage: however the calls overlap,
\* and in whatever order their upserts are answered or fail, the log in
\* localStorage is the result of applying the deltas (and resets) one
\* after another in the order of the calls.
C27_NoPatchLost ==
    pc = "store" => loadDailyLog(lsDailyLog) = applied

\* three patches were in flight together and were answered, the first
\* one last; localStorage holds the three
C27_Witness ==
    /\ pc = "store"
    /\ calls = MaxCalls
    /\ pending = {}
    /\ lsDailyLog = Some([DEFAULT_LOG EXCEPT !.caloriesIn = 300, !.waterMl = 250,
                                              !.sleepHours = 10])
    /\ log = [DEFAULT_LOG EXCEPT !.caloriesIn = 300]
    /\ applied = lsDailyLog[1]

\* C28: once every patch and reset request of the dashboard has resolved,
\* the log in the dashboard's state (the value of the last setLog) is the
\* log stored in localStorage, in whatever order the overlapping
\* requests' upserts were answered.
C28_StateEqualsLocalStorage ==
    (pc = "store" /\ calls > 0 /\ pending = {})
        => log = loadDailyLog(lsDailyLog)

\* one step in which cloudLoadDailyLog returns while the status is
\* 'offline' from a thrown daily-log upsert (no upsert is in flight and no
\* profile was saved): the log returned is the localStorage log, and the
\* item is left as it is
OfflinePatchKept ==
    (/\ reading # Undefined /\ reading' = Undefined
     /\ syncStatus = "offline"
     /\ pending = {} /\ profPending = {} /\ lsProfile = Undefined)
        => /\ loaded'[1].log = loadDailyLog(lsDailyLog)
           /\ lsDailyLog' = lsDailyLog

\* C29: a patch whose upsert failed (status 'offline') is not lost: the
\* next cloudLoadDailyLog on the same day, with the cloud reachable again
\* or not, returns a log that contains the patch, and localStorage still
\* contains it afterwards.
C29_OfflinePatchNotLost == [][OfflinePatchKept]_vars

\* ------------------------------------------------------------------
\* The dashboard's critical-alert effect
\* ------------------------------------------------------------------

MaxEvals == 4

\* the logs and clock hours at which the effect runs
AlertLogs ==
    {DEFAULT_LOG,
     [DEFAULT_LOG EXCEPT !.caloriesIn = 300],
     [DEFAULT_LOG EXCEPT !.caloriesIn = 600],
     [DEFAULT_LOG EXCEPT !.caloriesIn = 900, !.waterMl = 250],
     [DEFAULT_LOG EXCEPT !.caloriesIn = 1300, !.exerciseMinutes = 15,
                         !.caloriesOut = 105],
     [DEFAULT_LOG EXCEPT !.caloriesIn = 2000, !.exerciseMinutes = 30]}
AlertHours == {10, 15, 16, 18, 21}

\* a variant that alerts whenever the flag is up
ShouldAlertLevel(crit, prev) == crit

\* if (crit && !prevMissionCritRef.current) playCriticalAlert()
ShouldAlert(crit, prev) == crit /\ ~prev

InitAlert ==
    /\ pc = "alert"
    /\ log = DEFAULT_LOG
    /\ hour \in AlertHours
    /\ envTemp = 25
    /\ data = [metrics |-> calculateHealthMetrics(ScenarioAProfile)]
    /\ mission = NoMission
    /\ insights = <<>>
    /\ AlertIdle
    /\ BoardIdle
    /\ StoreIdle
    /\ DayIdle
    /\ SyncIdle
    /\ MetricsIdle
    /\ WaterIdle
    /\ ScoreIdle

\* the displayed log (or another dependency) changes at the clock hour h
\* and the effect runs: the mission of the log is computed, the alert is
\* played on a flag that was down at the run before, and the flag is kept
AlertEffect(l, h) ==
    /\ pc = "alert"
    /\ evals < MaxEvals
    /\ h >= hour
    /\ log' = l
    /\ hour' = h
    /\ LET wt   == calculateWaterTarget(l.exerciseMinutes, Undefined)
           crit == getMission(l, data.metrics.targetCalories, wt, h).critical
       IN  /\ mission' = getMission(l, data.metrics.targetCalories, wt, h)
           /\ alerts' = IF ShouldAlert(crit, prevMissionCrit)
                        THEN alerts + 1 ELSE alerts
           /\ prevMissionCrit' = crit
    /\ evals' = evals + 1
    /\ UNCHANGED <<pc, envTemp, data, insights>>
    /\ UNCHANGED <<metricsVars, waterVars, scoreVars, boardVars, storeVars,
                   dayVars, profVars, listeners, heard>>

NextAlert == \E l \in AlertLogs, h \in AlertHours : AlertEffect(l, h)

SpecAlert == InitAlert /\ [][NextAlert]_vars

\* one run of the effect plays the alert exactly when the mission of the
\* log it sees is critical and the mission seen by the run before was not
AlertOnRisingFlag ==
    evals' = evals + 1 =>
        /\ (alerts' = alerts + 1) <=> (mission'.critical /\ ~mission.critical)
        /\ alerts' \in {alerts, alerts + 1}

\* C30: playCriticalAlert is called exactly on a change of the mission's
\* critical flag from false to true between two successive evaluations:
\* never while the flag stays true or when it is false, and again only
\* after the flag has been false in between.
C30_AlertOnRisingFlag == [][AlertOnRisingFlag]_vars

\* the flag went up, stayed up, went down and up again: two alerts in
\* four runs
C30_Witness ==
    /\ pc = "alert"
    /\ evals = 4
    /\ alerts = 2
    /\ mission.critical
    /\ prevMissionCrit
====
